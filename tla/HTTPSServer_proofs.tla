------------------------ MODULE HTTPSServer_proofs ------------------------
(***************************************************************************)
(* The invariants of the worker pool for every non-empty finite set of     *)
(* workers and every set of connections.                                   *)
(***************************************************************************)
EXTENDS HTTPSServer, SequenceTheorems, FiniteSetTheorems, TLAPS

\* A worker has a connection exactly while it runs the servlet.
ServesInServlet == \A w \in Workers : (ssl[w] # NoClient) <=> (worker[w] = "servlet")

\* The flag is set once the main thread has left its loop and set it.
StopIsSet == stop <=> main \in {"notify_all", "join", "returned"}

\* A worker returns only after the flag was set and the queue was empty.
ExitedDrained == \A w \in Workers : worker[w] = "exited" => stop /\ ssl_sockets = <<>>

\* run() returns when all workers have.
ReturnedJoined == main = "returned" => \A w \in Workers : worker[w] = "exited"

Control == /\ ServesInServlet /\ StopIsSet /\ ExitedDrained /\ ReturnedJoined
           /\ NoSleeperAfterStop

IInv == TypeOK /\ Control /\ InOnePlace /\ NoLostWakeup

-----------------------------------------------------------------------------
\* push at the back of ssl_sockets
LEMMA PushBack ==
    ASSUME NEW s \in Seq(Clients), NEW c \in Clients
    PROVE  /\ Append(s, c) \in Seq(Clients)
           /\ Len(s) \in Nat /\ Len(Append(s, c)) = Len(s) + 1
           /\ DOMAIN s = 1 .. Len(s) /\ DOMAIN Append(s, c) = 1 .. Len(s) + 1
           /\ \A i \in 1 .. Len(s) : Append(s, c)[i] = s[i]
           /\ Append(s, c)[Len(s) + 1] = c
BY AppendProperties, LenProperties

\* pop at the front of ssl_sockets
LEMMA PopFrontProperties ==
    ASSUME NEW s \in Seq(Clients), s # <<>>
    PROVE  /\ Head(s) \in Clients /\ Head(s) = s[1] /\ Tail(s) \in Seq(Clients)
           /\ Len(s) \in Nat \ {0} /\ Len(Tail(s)) = Len(s) - 1
           /\ DOMAIN s = 1 .. Len(s) /\ DOMAIN Tail(s) = 1 .. Len(s) - 1
           /\ \A i \in 1 .. Len(s) - 1 : Tail(s)[i] = s[i + 1]
BY EmptySeq, LenProperties, HeadTailProperties

LEMMA InitInv == Init => IInv
<1> SUFFICES ASSUME Init PROVE IInv
  OBVIOUS
<1>0. ssl_sockets \in Seq(Clients) /\ Len(ssl_sockets) = 0 /\ DOMAIN ssl_sockets = {}
  BY EmptySeq, LenProperties DEF Init
<1>1. TypeOK
  BY <1>0 DEF Init, TypeOK, MainLocations, WorkerLocations
<1>2. Control
  BY WorkersAssumption DEF Init, Control, ServesInServlet, StopIsSet, ExitedDrained, ReturnedJoined,
             NoSleeperAfterStop
<1>3. InOnePlace
  <2>1. Queued = {} /\ Serving = {} /\ Finished = {} /\ backlog = {}
    BY <1>0 DEF Init, Queued, Serving, Finished
  <2>2. \A v \in Workers : ssl[v] = NoClient
    BY DEF Init
  <2>3. \A c \in Clients : served[c] <= 1
    BY DEF Init
  <2> QED  BY <1>0, <2>1, <2>2, <2>3 DEF InOnePlace
<1>4. NoLostWakeup
  BY DEF Init, NoLostWakeup, Asleep
<1> QED  BY <1>1, <1>2, <1>3, <1>4 DEF IInv

\* Every step keeps the types.
LEMMA TypeStep ==
    ASSUME IInv, [Next]_vars
    PROVE  TypeOK'
<1> USE DEF IInv, TypeOK
<1>1. ASSUME NEW c \in Clients, Connect(c) PROVE TypeOK'
  BY <1>1 DEF Connect
<1>2. CASE kill
  BY <1>2 DEF kill
<1>3. ASSUME NEW w \in Workers, Spawn(w) PROVE TypeOK'
  BY <1>3 DEF Spawn, MainLocations, WorkerLocations
<1>4. CASE Mask \/ PollFails \/ PollSignal \/ PollServer \/ Stop \/ Join
  BY <1>4 DEF Mask, PollFails, PollSignal, PollServer, Stop, Join, MainGoto, MainLocations
<1>5. CASE Accept
  <2>1. ssl_sockets' \in Seq(Clients)
    BY <1>5, PushBack DEF Accept
  <2> QED  BY <1>5, <2>1 DEF Accept, MainGoto, MainLocations
<1>6. CASE NotifyOne \/ NotifyAll
  <2>1. worker' \in [Workers -> WorkerLocations]
    BY <1>6 DEF NotifyOne, NotifyAll, WorkerLocations
  <2> QED  BY <1>6, <2>1 DEF NotifyOne, NotifyAll, MainGoto, MainLocations
<1>7. ASSUME NEW w \in Workers, Sleep(w) \/ Exit(w) \/ Spurious(w) PROVE TypeOK'
  BY <1>7 DEF Sleep, Exit, Spurious, WorkerLocations
<1>8. ASSUME NEW w \in Workers, PopFront(w) PROVE TypeOK'
  <2>1. Head(ssl_sockets) \in Clients /\ Tail(ssl_sockets) \in Seq(Clients)
    BY <1>8, PopFrontProperties DEF PopFront
  <2> QED  BY <1>8, <2>1 DEF PopFront, WorkerLocations
<1>9. ASSUME NEW w \in Workers, ServletDone(w) PROVE TypeOK'
  <2>1. ssl[w] \in Clients
    BY <1>9 DEF ServletDone, Control, ServesInServlet
  <2> QED  BY <1>9, <2>1 DEF ServletDone, WorkerLocations
<1>10. CASE Terminated \/ UNCHANGED vars
  BY <1>10 DEF Terminated, vars
<1> QED  BY <1>1, <1>2, <1>3, <1>4, <1>5, <1>6, <1>7, <1>8, <1>9, <1>10
         DEF Next, MainStep, Locked

\* Every step keeps the relations between the flag, the locations and the queue.
LEMMA ControlStep ==
    ASSUME IInv, [Next]_vars
    PROVE  Control'
<1> USE DEF IInv, TypeOK, Control, ServesInServlet, StopIsSet, ExitedDrained, ReturnedJoined,
            NoSleeperAfterStop, Asleep
<1>1. ASSUME NEW c \in Clients, Connect(c) PROVE Control'
  BY <1>1 DEF Connect
<1>2. CASE kill
  BY <1>2 DEF kill
<1>3. ASSUME NEW w \in Workers, Spawn(w) PROVE Control'
  BY <1>3 DEF Spawn
<1>4. CASE Mask \/ PollFails \/ PollSignal \/ PollServer \/ Stop \/ Join
  BY <1>4 DEF Mask, PollFails, PollSignal, PollServer, Stop, Join, MainGoto
<1>5. CASE Accept
  BY <1>5 DEF Accept, MainGoto
<1>6. CASE NotifyOne
  BY <1>6 DEF NotifyOne, MainGoto
<1>7. CASE NotifyAll
  BY <1>7 DEF NotifyAll, MainGoto
<1>8. ASSUME NEW w \in Workers, Sleep(w) \/ Exit(w) \/ Spurious(w) PROVE Control'
  BY <1>8 DEF Sleep, Exit, Spurious
<1>9. ASSUME NEW w \in Workers, PopFront(w) PROVE Control'
  <2>1. Head(ssl_sockets) # NoClient
    BY <1>9, PopFrontProperties, NoClientAssumption DEF PopFront
  <2> QED  BY <1>9, <2>1 DEF PopFront
<1>10. ASSUME NEW w \in Workers, ServletDone(w) PROVE Control'
  BY <1>10 DEF ServletDone
<1>11. CASE Terminated \/ UNCHANGED vars
  BY <1>11 DEF Terminated, vars
<1> QED  BY <1>1, <1>2, <1>3, <1>4, <1>5, <1>6, <1>7, <1>8, <1>9, <1>10, <1>11
         DEF Next, MainStep, Locked

\* A step that moves no connection keeps every connection in its one place.
LEMMA QuietPlace ==
    ASSUME InOnePlace, UNCHANGED <<ssl, backlog, ssl_sockets, served>>
    PROVE  InOnePlace'
BY DEF InOnePlace, Queued, Serving, Finished, Accepted

LEMMA ConnectPlace ==
    ASSUME IInv, NEW c \in Clients, Connect(c)
    PROVE  InOnePlace'
BY DEF IInv, InOnePlace, Queued, Serving, Finished, Accepted, Connect

\* accept() moves a connection from the backlog to the end of the queue.
LEMMA AcceptPlace ==
    ASSUME IInv, Accept
    PROVE  InOnePlace'
<1> PICK c \in backlog : /\ backlog' = backlog \ {c}
                         /\ ssl_sockets' = Append(ssl_sockets, c)
  BY DEF Accept
<1>1. c \in Clients /\ c \notin Queued /\ c \notin Serving /\ c \notin Finished
  BY DEF IInv, TypeOK, InOnePlace, Accepted
<1>2. /\ Len(ssl_sockets) \in Nat
      /\ DOMAIN ssl_sockets = 1 .. Len(ssl_sockets)
      /\ DOMAIN ssl_sockets' = 1 .. Len(ssl_sockets) + 1
      /\ \A i \in 1 .. Len(ssl_sockets) : ssl_sockets'[i] = ssl_sockets[i]
      /\ ssl_sockets'[Len(ssl_sockets) + 1] = c
  BY <1>1, PushBack DEF IInv, TypeOK
<1>3. Queued' = Queued \cup {c}
  BY <1>2 DEF Queued
<1>4. Serving' = Serving /\ Finished' = Finished
  BY DEF Accept, Serving, Finished
<1>5. \A i, j \in DOMAIN ssl_sockets' : i # j => ssl_sockets'[i] # ssl_sockets'[j]
  BY <1>1, <1>2 DEF IInv, InOnePlace, Queued
<1>6. /\ Queued' \cap Serving' = {}
      /\ Finished' \cap (Queued' \cup Serving') = {}
      /\ backlog' \cap Accepted' = {}
  BY <1>1, <1>3, <1>4 DEF IInv, InOnePlace, Accepted
<1> QED  BY <1>5, <1>6 DEF IInv, InOnePlace, Accept

\* A worker takes the first connection of the queue.
LEMMA PopPlace ==
    ASSUME IInv, NEW w \in Workers, PopFront(w)
    PROVE  InOnePlace'
<1> DEFINE c == Head(ssl_sockets)
<1>1. /\ c \in Clients /\ c = ssl_sockets[1]
      /\ Len(ssl_sockets) \in Nat \ {0}
      /\ DOMAIN ssl_sockets = 1 .. Len(ssl_sockets)
      /\ DOMAIN ssl_sockets' = 1 .. Len(ssl_sockets) - 1
      /\ \A i \in 1 .. Len(ssl_sockets) - 1 : ssl_sockets'[i] = ssl_sockets[i + 1]
  BY PopFrontProperties DEF IInv, TypeOK, PopFront
<1>2. /\ ssl[w] = NoClient /\ ssl'[w] = c /\ c # NoClient
      /\ \A v \in Workers \ {w} : ssl'[v] = ssl[v]
  BY <1>1, NoClientAssumption DEF IInv, TypeOK, Control, ServesInServlet, PopFront
<1>3. \A i, j \in DOMAIN ssl_sockets : i # j => ssl_sockets[i] # ssl_sockets[j]
  BY DEF IInv, InOnePlace
<1>4. c \in Queued /\ c \notin Serving
  BY <1>1 DEF IInv, InOnePlace, Queued
<1>5. Queued' = Queued \ {c}
  <2>1. ASSUME NEW x \in Queued' PROVE x \in Queued \ {c}
    <3> PICK i \in 1 .. Len(ssl_sockets) - 1 : x = ssl_sockets'[i]
      BY <2>1, <1>1 DEF Queued
    <3>1. x = ssl_sockets[i + 1] /\ i + 1 \in 1 .. Len(ssl_sockets) /\ i + 1 # 1
      BY <1>1
    <3> QED  BY <3>1, <1>1, <1>3 DEF Queued
  <2>2. ASSUME NEW x \in Queued \ {c} PROVE x \in Queued'
    <3> PICK i \in 1 .. Len(ssl_sockets) : x = ssl_sockets[i]
      BY <2>2, <1>1 DEF Queued
    <3>1. i - 1 \in 1 .. Len(ssl_sockets) - 1 /\ (i - 1) + 1 = i
      BY <2>2, <1>1
    <3>2. x = ssl_sockets'[i - 1]
      BY <3>1, <1>1
    <3> QED  BY <3>1, <3>2, <1>1 DEF Queued
  <2> QED  BY <2>1, <2>2
<1>6. Serving' = Serving \cup {c}
  BY <1>2 DEF Serving
<1>7. Finished' = Finished
  BY DEF PopFront, Finished
<1>8. \A i, j \in DOMAIN ssl_sockets' : i # j => ssl_sockets'[i] # ssl_sockets'[j]
  BY <1>1, <1>3
<1>9. \A u, v \in Workers : u # v /\ ssl'[u] # NoClient => ssl'[u] # ssl'[v]
  BY <1>2, <1>4 DEF IInv, InOnePlace, Serving
<1>10. /\ Queued' \cap Serving' = {}
       /\ Finished' \cap (Queued' \cup Serving') = {}
       /\ backlog' \cap Accepted' = {}
  BY <1>4, <1>5, <1>6, <1>7 DEF IInv, InOnePlace, Accepted, PopFront
<1> QED  BY <1>8, <1>9, <1>10 DEF IInv, InOnePlace, PopFront

\* The servlet returns: the connection has been served once.
LEMMA DonePlace ==
    ASSUME IInv, NEW w \in Workers, ServletDone(w)
    PROVE  InOnePlace'
<1>1. PICK c \in Clients : c = ssl[w] /\ c # NoClient
  BY DEF IInv, TypeOK, Control, ServesInServlet, ServletDone
<1>2. ssl'[w] = NoClient /\ \A v \in Workers \ {w} : ssl'[v] = ssl[v]
  BY DEF IInv, TypeOK, ServletDone
<1>3. c \in Serving /\ c \notin Queued /\ served[c] = 0
  BY <1>1 DEF IInv, TypeOK, InOnePlace, Serving, Finished
<1>4. served'[c] = 1 /\ \A d \in Clients \ {c} : served'[d] = served[d]
  BY <1>1, <1>3 DEF IInv, TypeOK, ServletDone
<1>5. Serving' = Serving \ {c}
  BY <1>1, <1>2 DEF IInv, InOnePlace, Serving
<1>6. Finished' = Finished \cup {c}
  BY <1>4 DEF Finished
<1>7. Queued' = Queued /\ backlog' = backlog
  BY DEF Queued, ServletDone
<1>8. \A u, v \in Workers : u # v /\ ssl'[u] # NoClient => ssl'[u] # ssl'[v]
  BY <1>1, <1>2 DEF IInv, InOnePlace
<1>9. /\ Queued' \cap Serving' = {}
      /\ Finished' \cap (Queued' \cup Serving') = {}
      /\ backlog' \cap Accepted' = {}
  BY <1>3, <1>5, <1>6, <1>7 DEF IInv, InOnePlace, Accepted
<1>10. \A d \in Clients : served'[d] <= 1
  BY <1>4 DEF IInv, InOnePlace
<1> QED  BY <1>8, <1>9, <1>10 DEF IInv, InOnePlace, ServletDone

LEMMA PlaceStep ==
    ASSUME IInv, [Next]_vars
    PROVE  InOnePlace'
<1>1. ASSUME NEW w \in Workers, Spawn(w) \/ Sleep(w) \/ Exit(w) \/ Spurious(w)
      PROVE  InOnePlace'
  BY <1>1, QuietPlace DEF IInv, Spawn, Sleep, Exit, Spurious
<1>2. CASE \/ kill \/ Mask \/ PollFails \/ PollSignal \/ PollServer \/ NotifyOne
           \/ Stop \/ NotifyAll \/ Join
  BY <1>2, QuietPlace DEF IInv, kill, Mask, PollFails, PollSignal, PollServer, NotifyOne,
                          Stop, NotifyAll, Join
<1>3. CASE Terminated \/ UNCHANGED vars
  BY <1>3, QuietPlace DEF IInv, Terminated, vars
<1> QED  BY <1>1, <1>2, <1>3, ConnectPlace, AcceptPlace, PopPlace, DonePlace
         DEF Next, MainStep, Locked

-----------------------------------------------------------------------------
LEMMA ReadyIsFinite == IsFiniteSet(Ready) /\ Cardinality(Ready) \in Nat
BY WorkersAssumption, FS_Subset, FS_CardinalityType DEF Ready

\* The notifications still to be sent.
Pending == IF main = "notify_one" THEN 1 ELSE 0

\* A worker that wakes, is created or comes back adds to the workers at the queue.
LEMMA OneMoreReady ==
    ASSUME IInv, NEW w \in Workers, worker[w] # "lock",
           worker' = [worker EXCEPT ![w] = "lock"]
    PROVE  Cardinality(Ready') = Cardinality(Ready) + 1 /\ Asleep' \subseteq Asleep
<1>1. Ready' = Ready \cup {w} /\ w \notin Ready
  BY DEF IInv, TypeOK, Ready
<1>2. Asleep' \subseteq Asleep
  BY DEF IInv, TypeOK, Asleep
<1> QED  BY <1>1, <1>2, ReadyIsFinite, FS_AddElement

\* Every step keeps a worker on its way to each queued connection while others sleep.
LEMMA WakeupStep ==
    ASSUME IInv, [Next]_vars
    PROVE  NoLostWakeup'
<1>0. /\ Len(ssl_sockets) \in Nat /\ Cardinality(Ready) \in Nat
      /\ Asleep # {} => Len(ssl_sockets) <= Cardinality(Ready) + Pending
  BY LenProperties, ReadyIsFinite DEF IInv, TypeOK, NoLostWakeup, Pending
<1> USE <1>0 DEF NoLostWakeup, Pending
<1>1. ASSUME NEW w \in Workers, Spawn(w) PROVE NoLostWakeup'
  <2>1. Cardinality(Ready') = Cardinality(Ready) + 1 /\ Asleep' \subseteq Asleep
    BY <1>1, OneMoreReady DEF Spawn
  <2> QED  BY <1>1, <2>1 DEF Spawn
<1>2. CASE \/ kill \/ Mask \/ PollFails \/ PollSignal \/ PollServer \/ Stop \/ Join
           \/ Terminated \/ UNCHANGED vars
  BY <1>2 DEF kill, Mask, PollFails, PollSignal, PollServer, Stop, Join, MainGoto,
              Terminated, vars, Ready, Asleep
<1>3. ASSUME NEW c \in Clients, Connect(c) PROVE NoLostWakeup'
  BY <1>3 DEF Connect, Ready, Asleep
<1>4. CASE Accept
  <2>1. Len(ssl_sockets') = Len(ssl_sockets) + 1
    BY <1>4, PushBack DEF Accept, IInv, TypeOK
  <2>2. Ready' = Ready /\ Asleep' = Asleep
    BY <1>4 DEF Accept, Ready, Asleep
  <2> QED  BY <1>4, <2>1, <2>2 DEF Accept, MainGoto
<1>5. CASE NotifyOne
  <2>1. CASE Asleep = {} /\ UNCHANGED worker
    BY <2>1 DEF Asleep
  <2>2. ASSUME NEW w \in Asleep, worker' = [worker EXCEPT ![w] = "lock"]
        PROVE  NoLostWakeup'
    <3>1. Cardinality(Ready') = Cardinality(Ready) + 1 /\ Asleep # {}
      BY <2>2, OneMoreReady DEF Asleep
    <3> QED  BY <1>5, <3>1 DEF NotifyOne, MainGoto
  <2> QED  BY <1>5, <2>1, <2>2 DEF NotifyOne
<1>6. CASE NotifyAll
  BY <1>6 DEF NotifyAll, Asleep
<1>7. ASSUME NEW w \in Workers, Sleep(w) \/ Exit(w) PROVE NoLostWakeup'
  <2>1. Len(ssl_sockets') = 0
    BY <1>7, EmptySeq DEF Sleep, Exit
  <2>2. Cardinality(Ready') \in Nat
    <3>1. Ready' \in SUBSET Workers
      BY DEF Ready
    <3> QED  BY <3>1, WorkersAssumption, FS_Subset, FS_CardinalityType
  <2> QED  BY <2>1, <2>2
<1>8. ASSUME NEW w \in Workers, PopFront(w) PROVE NoLostWakeup'
  <2>1. Len(ssl_sockets') = Len(ssl_sockets) - 1
    BY <1>8, PopFrontProperties DEF PopFront, IInv, TypeOK
  <2>2. Ready' = Ready \ {w} /\ w \in Ready /\ Asleep' = Asleep
    BY <1>8 DEF PopFront, IInv, TypeOK, Ready, Asleep
  <2>3. Cardinality(Ready') = Cardinality(Ready) - 1
    BY <2>2, ReadyIsFinite, FS_RemoveElement
  <2> QED  BY <1>8, <2>1, <2>2, <2>3 DEF PopFront
<1>9. ASSUME NEW w \in Workers, Spurious(w) \/ ServletDone(w) PROVE NoLostWakeup'
  <2>1. Cardinality(Ready') = Cardinality(Ready) + 1 /\ Asleep' \subseteq Asleep
    BY <1>9, OneMoreReady DEF Spurious, ServletDone
  <2> QED  BY <1>9, <2>1 DEF Spurious, ServletDone
<1> QED  BY <1>1, <1>2, <1>3, <1>4, <1>5, <1>6, <1>7, <1>8, <1>9
         DEF Next, MainStep, Locked

-----------------------------------------------------------------------------
\* HTTPSServer.h, run and run_internal: the inductive invariant of the pool.
THEOREM ServerInvariant == Spec => []IInv
<1>1. IInv /\ [Next]_vars => IInv'
  BY TypeStep, ControlStep, PlaceStep, WakeupStep DEF IInv
<1> QED  BY <1>1, InitInv, PTL DEF Spec

\* HTTPSServer.h: the variables keep their types.
THEOREM ServerTypeCorrect == Spec => []TypeOK
<1>1. IInv => TypeOK
  BY DEF IInv
<1> QED  BY <1>1, ServerInvariant, PTL

\* HTTPSServer.h: with any number of workers no connection is lost to two
\* owners, queued twice or served twice.
THEOREM ServerServesOnce == Spec => []InOnePlace
<1>1. IInv => InOnePlace
  BY DEF IInv
<1> QED  BY <1>1, ServerInvariant, PTL

\* HTTPSServer.h:275-283: when run() returns nothing is queued or being served.
THEOREM ServerDrains == Spec => []DrainedBeforeReturn
<1>1. IInv => DrainedBeforeReturn
  <2> SUFFICES ASSUME IInv, main = "returned" PROVE Queued = {} /\ Serving = {}
    BY DEF DrainedBeforeReturn
  <2>1. \A w \in Workers : worker[w] = "exited"
    BY DEF IInv, Control, ReturnedJoined
  <2>2. ssl_sockets = <<>>
    BY <2>1, WorkersAssumption DEF IInv, Control, ExitedDrained
  <2>3. Queued = {}
    BY <2>2, EmptySeq, LenProperties DEF Queued
  <2>4. Serving = {}
    BY <2>1 DEF IInv, Control, ServesInServlet, Serving
  <2> QED  BY <2>3, <2>4
<1> QED  BY <1>1, ServerInvariant, PTL

\* HTTPSServer.h:276-282: join() never waits for a sleeping worker.
THEOREM ServerStopIsHeard == Spec => []NoSleeperAfterStop
<1>1. IInv => NoSleeperAfterStop
  BY DEF IInv, Control
<1> QED  BY <1>1, ServerInvariant, PTL

\* HTTPSServer.h:247-252: notifying after the unlock loses no wakeup.
THEOREM ServerWakes == Spec => []NoLostWakeup
<1>1. IInv => NoLostWakeup
  BY DEF IInv
<1> QED  BY <1>1, ServerInvariant, PTL
=============================================================================
