----------------------------- MODULE HTTPSServer -----------------------------
(***************************************************************************)
(* HTTPSServer::run with thnum > 0, "mandatory parallelism"                *)
(* (src/src/http/serv/HTTPSServer.h): the main loop accepts connections    *)
(* and queues them in ssl_sockets; a fixed pool of workers serves them.    *)
(* A signal ends the loop, and the pool is then stopped and joined.        *)
(*                                                                         *)
(* Every critical section of mux is one step.  notify_one and notify_all   *)
(* are called after the mutex is given up and are steps of their own.      *)
(* What a servlet does with its connection is modelled in Servlet.tla.     *)
(***************************************************************************)
EXTENDS Naturals, Sequences, FiniteSets

CONSTANTS
    Workers,         \* the threads run() creates
    Clients,         \* connections that clients open
    NoClient         \* the value of a worker's ssl when it serves nothing

ASSUME NoClientAssumption == NoClient \notin Clients
ASSUME WorkersAssumption == IsFiniteSet(Workers) /\ Workers # {}

VARIABLES
    main,          \* where the thread that called run() is
    worker,        \* where each worker is
    ssl,           \* the connection each worker serves
    backlog,       \* connections the kernel holds for accept()
    ssl_sockets,   \* accepted connections that wait for a worker
    served,        \* how often the servlet has finished each connection
    stop,          \* the stop flag
    signal         \* a SIGINT is pending on the signalfd

vars == <<main, worker, ssl, backlog, ssl_sockets, served, stop, signal>>

MainLocations   == {"spawn", "mask", "poll", "accept", "notify_one",
                    "stop", "notify_all", "join", "returned"}
WorkerLocations == {"unborn", "lock", "wait", "servlet", "exited"}

TypeOK == /\ main \in MainLocations
          /\ worker \in [Workers -> WorkerLocations]
          /\ ssl \in [Workers -> Clients \cup {NoClient}]
          /\ backlog \subseteq Clients
          /\ ssl_sockets \in Seq(Clients)
          /\ served \in [Clients -> Nat]
          /\ stop \in BOOLEAN
          /\ signal \in BOOLEAN

Init == /\ main = "spawn"
        /\ worker = [w \in Workers |-> "unborn"]
        /\ ssl = [w \in Workers |-> NoClient]
        /\ backlog = {}
        /\ ssl_sockets = <<>>
        /\ served = [c \in Clients |-> 0]
        /\ stop = FALSE
        /\ signal = FALSE

Queued   == {ssl_sockets[i] : i \in DOMAIN ssl_sockets}
Serving  == {ssl[w] : w \in Workers} \ {NoClient}
Finished == {c \in Clients : served[c] > 0}
Accepted == Queued \cup Serving \cup Finished

-----------------------------------------------------------------------------
(* The environment *)

\* openPort() has the socket listening before run(): clients connect at any time
Connect(c) == /\ c \notin backlog \cup Accepted
              /\ backlog' = backlog \cup {c}
              /\ UNCHANGED <<main, worker, ssl, ssl_sockets, served, stop, signal>>

\* kill() sends SIGINT to pth, which is the main thread once run_internal() has
\* set it; that thread has the signal blocked, so it becomes readable data
kill == /\ main \notin {"spawn", "mask", "returned"}
        /\ signal' = TRUE
        /\ UNCHANGED <<main, worker, ssl, backlog, ssl_sockets, served, stop>>

-----------------------------------------------------------------------------
(* The thread that calls run() *)

MainGoto(l) == main' = l

\* one turn of the loop that creates the workers
Spawn(w) == /\ main = "spawn"
            /\ worker[w] = "unborn"
            /\ worker' = [worker EXCEPT ![w] = "lock"]
            /\ main' = IF \A v \in Workers \ {w} : worker[v] # "unborn"
                       THEN "mask" ELSE "spawn"
            /\ UNCHANGED <<ssl, backlog, ssl_sockets, served, stop, signal>>

\* sigprocmask, signalfd, pth = pthread_self()
Mask == /\ main = "mask"
        /\ MainGoto("poll")
        /\ UNCHANGED <<worker, ssl, backlog, ssl_sockets, served, stop, signal>>

\* poll() returns: a failure or the signal ends the loop, and the signal is
\* looked at before the server socket
PollFails == /\ main = "poll"
             /\ MainGoto("stop")
             /\ UNCHANGED <<worker, ssl, backlog, ssl_sockets, served, stop, signal>>

PollSignal == /\ main = "poll"
              /\ signal
              /\ signal' = FALSE
              /\ MainGoto("stop")
              /\ UNCHANGED <<worker, ssl, backlog, ssl_sockets, served, stop>>

PollServer == /\ main = "poll"
              /\ ~signal
              /\ backlog # {}
              /\ MainGoto("accept")
              /\ UNCHANGED <<worker, ssl, backlog, ssl_sockets, served, stop, signal>>

\* bug: a failed accept() is queued as a null SSL
AcceptNull == /\ main = "accept"
              /\ \E c \in backlog : backlog' = backlog \ {c}
              /\ ssl_sockets' = Append(ssl_sockets, NoClient)
              /\ MainGoto("notify_one")
              /\ UNCHANGED <<worker, ssl, served, stop, signal>>

\* accept() and the queueing of the new SSL; a connection that accept() reports
\* as aborted is queued like the others and fails in the servlet's handshake
Accept == /\ main = "accept"
          /\ \E c \in backlog : /\ backlog' = backlog \ {c}
                                /\ ssl_sockets' = Append(ssl_sockets, c)
          /\ MainGoto("notify_one")
          /\ UNCHANGED <<worker, ssl, served, stop, signal>>

Ready  == {w \in Workers : worker[w] = "lock"}
Asleep == {w \in Workers : worker[w] = "wait"}

\* bug: notify only when the queue was empty before
NotifyOneIfFirst ==
    /\ main = "notify_one"
    /\ MainGoto("poll")
    /\ \/ (Asleep = {} \/ Len(ssl_sockets) # 1) /\ UNCHANGED worker
       \/ Len(ssl_sockets) = 1 /\ \E w \in Asleep : worker' = [worker EXCEPT ![w] = "lock"]
    /\ UNCHANGED <<ssl, backlog, ssl_sockets, served, stop, signal>>

\* bug: no notification
NotifyNobody == /\ main = "notify_one"
                /\ MainGoto("poll")
                /\ UNCHANGED <<worker, ssl, backlog, ssl_sockets, served, stop, signal>>

NotifyOne == /\ main = "notify_one"
             /\ MainGoto("poll")
             /\ \/ Asleep = {} /\ UNCHANGED worker
                \/ \E w \in Asleep : worker' = [worker EXCEPT ![w] = "lock"]
             /\ UNCHANGED <<ssl, backlog, ssl_sockets, served, stop, signal>>

\* bug: the flag is not set before the workers are woken
StopForgotten == /\ main = "stop"
                 /\ MainGoto("notify_all")
                 /\ UNCHANGED <<worker, ssl, backlog, ssl_sockets, served, stop, signal>>

Stop == /\ main = "stop"
        /\ stop' = TRUE
        /\ MainGoto("notify_all")
        /\ UNCHANGED <<worker, ssl, backlog, ssl_sockets, served, signal>>

\* bug: notify_one instead of notify_all
NotifyAllOne == /\ main = "notify_all"
                /\ MainGoto("join")
                /\ \/ Asleep = {} /\ UNCHANGED worker
                   \/ \E w \in Asleep : worker' = [worker EXCEPT ![w] = "lock"]
                /\ UNCHANGED <<ssl, backlog, ssl_sockets, served, stop, signal>>

NotifyAll == /\ main = "notify_all"
             /\ MainGoto("join")
             /\ worker' = [w \in Workers |-> IF worker[w] = "wait" THEN "lock" ELSE worker[w]]
             /\ UNCHANGED <<ssl, backlog, ssl_sockets, served, stop, signal>>

Join == /\ main = "join"
        /\ \A w \in Workers : worker[w] = "exited"
        /\ MainGoto("returned")
        /\ UNCHANGED <<worker, ssl, backlog, ssl_sockets, served, stop, signal>>

MainStep == \/ \E w \in Workers : Spawn(w)
            \/ Mask \/ PollSignal \/ PollServer \/ Accept \/ NotifyOne
            \/ Stop \/ NotifyAll \/ Join

-----------------------------------------------------------------------------
(* A worker *)

\* the predicate of cond.wait is false: give the mutex up and sleep
Sleep(w) == /\ worker[w] = "lock"
            /\ ~stop /\ ssl_sockets = <<>>
            /\ worker' = [worker EXCEPT ![w] = "wait"]
            /\ UNCHANGED <<main, ssl, backlog, ssl_sockets, served, stop, signal>>

\* bug: the queue is not looked at
ExitEarly(w) == /\ worker[w] = "lock"
                /\ stop
                /\ worker' = [worker EXCEPT ![w] = "exited"]
                /\ UNCHANGED <<main, ssl, backlog, ssl_sockets, served, stop, signal>>

\* if (stop && ssl_sockets.empty()) return;
Exit(w) == /\ worker[w] = "lock"
           /\ stop /\ ssl_sockets = <<>>
           /\ worker' = [worker EXCEPT ![w] = "exited"]
           /\ UNCHANGED <<main, ssl, backlog, ssl_sockets, served, stop, signal>>

\* bug: pop_front() is missing
PopNothing(w) == /\ worker[w] = "lock"
                 /\ ssl_sockets # <<>>
                 /\ ssl' = [ssl EXCEPT ![w] = Head(ssl_sockets)]
                 /\ worker' = [worker EXCEPT ![w] = "servlet"]
                 /\ UNCHANGED <<main, backlog, ssl_sockets, served, stop, signal>>

PopFront(w) == /\ worker[w] = "lock"
               /\ ssl_sockets # <<>>
               /\ ssl' = [ssl EXCEPT ![w] = Head(ssl_sockets)]
               /\ ssl_sockets' = Tail(ssl_sockets)
               /\ worker' = [worker EXCEPT ![w] = "servlet"]
               /\ UNCHANGED <<main, backlog, served, stop, signal>>

Spurious(w) == /\ worker[w] = "wait"
               /\ worker' = [worker EXCEPT ![w] = "lock"]
               /\ UNCHANGED <<main, ssl, backlog, ssl_sockets, served, stop, signal>>

\* servlet(ssl) returns; it has closed the connection
ServletDone(w) == /\ worker[w] = "servlet"
                  /\ served' = [served EXCEPT ![ssl[w]] = @ + 1]
                  /\ ssl' = [ssl EXCEPT ![w] = NoClient]
                  /\ worker' = [worker EXCEPT ![w] = "lock"]
                  /\ UNCHANGED <<main, backlog, ssl_sockets, stop, signal>>

Locked(w) == Sleep(w) \/ Exit(w) \/ PopFront(w)

-----------------------------------------------------------------------------
\* run() has returned
Terminated == main = "returned" /\ UNCHANGED vars

Next == \/ \E c \in Clients : Connect(c)
        \/ kill
        \/ MainStep \/ PollFails
        \/ \E w \in Workers : Locked(w) \/ Spurious(w) \/ ServletDone(w)
        \/ Terminated

Spec == Init /\ [][Next]_vars

\* Threads are scheduled; a servlet returns because each SSL_read gives up after
\* rcv_timeout seconds and clients do not send requests for ever.
FairSpec == /\ Spec
            /\ WF_vars(MainStep)
            /\ \A w \in Workers : /\ WF_vars(Locked(w))
                                  /\ WF_vars(ServletDone(w))

-----------------------------------------------------------------------------
(* The properties *)

(* A connection is in one place: never accepted twice, queued twice, given to
   two workers or served twice (ssl_sockets, front/pop_front under mux). *)
InOnePlace ==
    /\ \A i, j \in DOMAIN ssl_sockets : i # j => ssl_sockets[i] # ssl_sockets[j]
    /\ \A v, w \in Workers : v # w /\ ssl[v] # NoClient => ssl[v] # ssl[w]
    /\ Queued \cap Serving = {}
    /\ Finished \cap (Queued \cup Serving) = {}
    /\ backlog \cap Accepted = {}
    /\ \A c \in Clients : served[c] <= 1

(* run() returns only when every connection it accepted has been served: the
   workers drain ssl_sockets before they obey stop (HTTPSServer.h:152, 281). *)
DrainedBeforeReturn == main = "returned" => Queued = {} /\ Serving = {}

(* No worker sleeps through the stop flag: once notify_all has been called
   nobody waits on cond again, so join() cannot hang on a sleeper
   (HTTPSServer.h:151, 276-282). *)
NoSleeperAfterStop == main \in {"join", "returned"} => Asleep = {}

(* Calling notify_one after the unlock loses no wakeup: while a worker sleeps,
   every queued connection has a worker of its own that is awake and on its way
   to the queue, or is about to be notified (HTTPSServer.h:247-252). *)
NoLostWakeup ==
    Asleep # {} => Len(ssl_sockets) <= Cardinality(Ready) + (IF main = "notify_one" THEN 1 ELSE 0)

(* Every accepted connection is served, although the notification follows the
   unlock and a busy worker may take the connection before the notified one. *)
EveryAcceptedServed ==
    \A c \in Clients : (c \in Queued) ~> (served[c] = 1)

(* kill() stops the server: run() returns, whatever is queued or being served
   when the signal arrives ("Stops the server", HTTPSServer.h:171). *)
KillStopsServer == signal ~> (main = "returned")
=============================================================================
