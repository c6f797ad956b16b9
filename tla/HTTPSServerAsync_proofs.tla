----------------------- MODULE HTTPSServerAsync_proofs -----------------------
(***************************************************************************)
(* Proofs about HTTPSServer::run(0), for any set of clients.  A servlet    *)
(* that runs is never forgotten, whatever number of threads the system     *)
(* grants; no servlet is forgotten when the system grants a thread to      *)
(* every client.                                                           *)
(***************************************************************************)
EXTENDS HTTPSServerAsync, FiniteSetTheorems, TLAPS

(* The inductive invariant.  A connection in the backlog has no servlet yet,
   a running servlet has its future in servlets, run(0) returns after the last
   one, and the default action of a signal ends the process only before the
   first connection is accepted. *)
AsyncInv ==
    /\ TypeOK
    /\ \A c \in backlog : future[c] = "none"
    /\ \A c \in Clients : future[c] = "running" => c \in servlets
    /\ main = "returned" => \A c \in Clients : future[c] # "running"
    /\ main = "mask" => \A c \in Clients : future[c] = "none"
    /\ ~alive => main = "mask"

LEMMA AsyncInvInit == Init => AsyncInv
  BY DEF Init, AsyncInv, TypeOK, MainLocations, FutureStatuses

(* No step of the server, its servlets, its clients or a signal breaks the
   inductive invariant. *)
LEMMA AsyncInvStep == AsyncInv /\ [Next]_vars => AsyncInv'
<1> SUFFICES ASSUME AsyncInv, [Next]_vars PROVE AsyncInv'
  OBVIOUS
<1> USE DEF AsyncInv, TypeOK, MainLocations, FutureStatuses
<1>1. ASSUME NEW c \in Clients, Connect(c) PROVE AsyncInv'
  BY <1>1 DEF Connect
<1>2. ASSUME NEW c \in Clients, alive, ServletDone(c) PROVE AsyncInv'
  <2>1. /\ future[c] = "running"
        /\ future' = [future EXCEPT ![c] = "ready"]
        /\ UNCHANGED <<main, backlog, servlets, signal, alive>>
    BY <1>2 DEF ServletDone
  <2>2. main # "mask" /\ main # "returned" /\ c \notin backlog
    BY <2>1
  <2> QED
    BY <2>1, <2>2
<1>3. CASE alive /\ Interrupt
  BY <1>3 DEF Interrupt
<1>4. CASE alive /\ Mask
  BY <1>4 DEF Mask
<1>5. CASE alive /\ PollFails
  BY <1>5 DEF PollFails
<1>6. CASE alive /\ PollSignal
  BY <1>6 DEF PollSignal
<1>7. CASE alive /\ PollServer
  BY <1>7 DEF PollServer
<1>8. CASE alive /\ Accept
  <2>1. PICK c \in backlog :
            /\ backlog' = backlog \ {c}
            /\ future' = [future EXCEPT ![c] =
                  IF Cardinality(Having("running")) < MaxThreads THEN "running" ELSE "deferred"]
            /\ servlets' = servlets \cup {c}
    BY <1>8 DEF Accept
  <2>2. main = "accept" /\ main' = "reap" /\ UNCHANGED <<signal, alive>> /\ alive
    BY <1>8 DEF Accept
  <2>3. future'[c] \in {"running", "deferred"} /\ \A d \in Clients \ {c} : future'[d] = future[d]
    BY <2>1
  <2>4. future' \in [Clients -> FutureStatuses]
    BY <2>1
  <2> QED
    BY <2>1, <2>2, <2>3, <2>4
<1>9. CASE alive /\ Reap
  BY <1>9 DEF Reap
<1>10. CASE alive /\ Wait
  BY <1>10 DEF Wait
<1>11. CASE UNCHANGED vars
  BY <1>11 DEF vars
<1> QED
  BY <1>1, <1>2, <1>3, <1>4, <1>5, <1>6, <1>7, <1>8, <1>9, <1>10, <1>11
  DEF Next, MainStep, Terminated

(* The server's state stays in its type, for any set of clients and any number
   of threads. *)
THEOREM AsyncTypeCorrect == Spec => []TypeOK
<1>1. AsyncInv => TypeOK
  BY DEF AsyncInv
<1> QED
  BY <1>1, AsyncInvInit, AsyncInvStep, PTL DEF Spec

(* As long as std::async has never fallen back to a deferred call, every
   servlet that is not finished has its future in servlets, and run(0) returns
   only when every accepted connection has been served (HTTPSServer.h:258,
   267-271, 285-288). *)
THEOREM RunningKept ==
    Spec => [](Having("deferred") = {} => OnlyFinishedRemoved /\ GracefulExit)
<1>1. AsyncInv => (Having("deferred") = {} => OnlyFinishedRemoved /\ GracefulExit)
  BY DEF AsyncInv, TypeOK, OnlyFinishedRemoved, GracefulExit, Having
<1> QED
  BY <1>1, AsyncInvInit, AsyncInvStep, PTL DEF Spec

-----------------------------------------------------------------------------
(* The system lets the process have a thread for every client. *)
EnoughThreads == IsFiniteSet(Clients) /\ Cardinality(Clients) <= MaxThreads

NoneDeferred == Having("deferred") = {}

(* With enough threads, std::async never falls back to a deferred call when a
   connection is accepted: the client being accepted has no servlet, so fewer
   servlets run than there are clients. *)
LEMMA NeverDeferred ==
    ASSUME EnoughThreads
    PROVE  AsyncInv /\ NoneDeferred /\ [Next]_vars => NoneDeferred'
<1> SUFFICES ASSUME AsyncInv, NoneDeferred, [Next]_vars,
                    NEW d \in Clients, future'[d] = "deferred"
             PROVE  FALSE
  BY DEF NoneDeferred, Having
<1>1. future[d] # "deferred" /\ future \in [Clients -> FutureStatuses]
  BY DEF NoneDeferred, Having, AsyncInv, TypeOK
<1>2. CASE alive /\ Accept
  <2>1. PICK c \in backlog :
            future' = [future EXCEPT ![c] =
               IF Cardinality(Having("running")) < MaxThreads THEN "running" ELSE "deferred"]
    BY <1>2 DEF Accept
  <2>2. Having("running") \subseteq Clients \ {c} /\ c \in Clients
    BY DEF AsyncInv, TypeOK, Having
  <2>3. IsFiniteSet(Clients \ {c}) /\ Cardinality(Clients \ {c}) = Cardinality(Clients) - 1
    BY <2>2, FS_RemoveElement DEF EnoughThreads
  <2>4. IsFiniteSet(Having("running")) /\ Cardinality(Having("running")) <= Cardinality(Clients \ {c})
    BY <2>2, <2>3, FS_Subset
  <2>5. Cardinality(Having("running")) \in Nat /\ Cardinality(Clients) \in Nat
    BY <2>4, FS_CardinalityType DEF EnoughThreads
  <2>6. Cardinality(Having("running")) < MaxThreads
    BY <2>3, <2>4, <2>5, MaxThreadsAssumption DEF EnoughThreads
  <2> QED
    BY <2>1, <2>6, <1>1
<1>3. ASSUME NEW c \in Clients, ServletDone(c) PROVE FALSE
  BY <1>1, <1>3 DEF ServletDone
<1>4. CASE UNCHANGED future
  BY <1>1, <1>4
<1> QED
  BY <1>2, <1>3, <1>4 DEF Next, MainStep, Terminated, vars, Connect, Interrupt, Mask,
     PollFails, PollSignal, PollServer, Reap, Wait

(* With enough threads, the inductive invariant and the absence of deferred
   calls hold in every state. *)
LEMMA EnoughThreadsInv == ASSUME EnoughThreads PROVE Spec => [](AsyncInv /\ NoneDeferred)
<1>1. Init => NoneDeferred
  BY DEF Init, NoneDeferred, Having
<1>2. AsyncInv /\ NoneDeferred /\ [Next]_vars => NoneDeferred'
  BY NeverDeferred
<1> QED
  BY <1>1, <1>2, AsyncInvInit, AsyncInvStep, PTL DEF Spec

(* With enough threads, the future of every servlet that is not finished stays
   in servlets: remove_if drops finished ones only (HTTPSServer.h:258,
   267-271). *)
THEOREM FinishedRemovedOnly == ASSUME EnoughThreads PROVE Spec => []OnlyFinishedRemoved
<1>1. AsyncInv /\ NoneDeferred => OnlyFinishedRemoved
  BY DEF AsyncInv, TypeOK, OnlyFinishedRemoved, NoneDeferred, Having
<1>2. Spec => [](AsyncInv /\ NoneDeferred)
  BY EnoughThreadsInv
<1> QED
  BY <1>1, <1>2, PTL

(* With enough threads, run(0) returns, by kill() or Ctrl+C, only when every
   accepted connection has been served (HTTPSServer.h:285-288). *)
THEOREM ExitIsGraceful == ASSUME EnoughThreads PROVE Spec => []GracefulExit
<1>1. AsyncInv /\ NoneDeferred => GracefulExit
  BY DEF AsyncInv, TypeOK, GracefulExit, NoneDeferred, Having
<1>2. Spec => [](AsyncInv /\ NoneDeferred)
  BY EnoughThreadsInv
<1> QED
  BY <1>1, <1>2, PTL
=============================================================================
