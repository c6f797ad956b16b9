---------------------------- MODULE DatabasePool ----------------------------
(***************************************************************************)
(* db::DatabasePool, db::DatabaseConnection and db::TransactionLock        *)
(* (src/src/db/DB.h).  The threads are the server's threads: each request  *)
(* handler takes one connection (Core::database()), runs its statements,   *)
(* perhaps inside one transaction, and returns the connection when the     *)
(* DatabaseConnection object goes out of scope, by return or by throw.     *)
(*                                                                         *)
(* The bodies of lock() and unlock() run under the pool's mutex, so each   *)
(* is one step; cv.wait gives the mutex up, so a thread that finds the     *)
(* stack empty sleeps and re-enters lock() when it is woken.               *)
(***************************************************************************)
EXTENDS Integers, Sequences

CONSTANTS
    Threads,      \* threads that run request handlers
    Size,         \* number of connections the pool is constructed with
    MaxRequests   \* bound: requests each thread handles

ASSUME SizeAssumption == Size \in Nat
ASSUME MaxRequestsAssumption == MaxRequests \in Nat

VARIABLES
    idxs,    \* the stack of idle connection indexes; the last element is the top
    pc,      \* where each thread is
    conn,    \* the connection each thread's DatabaseConnection holds
    open,    \* the connections on which the server has a transaction open
    left,    \* requests each thread may still start
    alive    \* FALSE once std::terminate has been called

vars == <<idxs, pc, conn, open, left, alive>>

Indexes == 0 .. Size - 1
NoIdx   == -1

\* idle: between requests; lock: about to own the mutex in lock(); wait: asleep
\* in cv.wait; use: holds a connection; tx: inside a TransactionLock, not yet
\* committed; unwind: in ~TransactionLock with com = false; done: the one
\* transaction of this handler is over
Holding   == {"use", "tx", "unwind", "done"}
Locations == {"idle", "lock", "wait"} \cup Holding

TypeOK == /\ idxs \in Seq(Indexes)
          /\ pc \in [Threads -> Locations]
          /\ conn \in [Threads -> Indexes \cup {NoIdx}]
          /\ open \subseteq Indexes
          /\ left \in [Threads -> 0 .. MaxRequests]
          /\ alive \in BOOLEAN

\* bug: the constructor pushes i + 1
InitOneBased == /\ idxs = [i \in 1 .. Size |-> i]
                /\ pc = [t \in Threads |-> "idle"]
                /\ conn = [t \in Threads |-> NoIdx]
                /\ open = {}
                /\ left = [t \in Threads |-> MaxRequests]
                /\ alive = TRUE

\* DatabasePool(size, ...): index i is pushed in the order 0, 1, ..., size - 1
Init == /\ idxs = [i \in 1 .. Size |-> i - 1]
        /\ pc = [t \in Threads |-> "idle"]
        /\ conn = [t \in Threads |-> NoIdx]
        /\ open = {}
        /\ left = [t \in Threads |-> MaxRequests]
        /\ alive = TRUE

-----------------------------------------------------------------------------
Goto(t, l) == pc' = [pc EXCEPT ![t] = l]

\* a handler asks for a connection: the DatabaseConnection constructor calls lock()
Request(t) == /\ pc[t] = "idle"
              /\ left[t] > 0
              /\ left' = [left EXCEPT ![t] = @ - 1]
              /\ Goto(t, "lock")
              /\ UNCHANGED <<idxs, conn, open, alive>>

\* bug: idxs.pop() is missing
TakeNoPop(t) == /\ pc[t] = "lock"
                /\ idxs # <<>>
                /\ conn' = [conn EXCEPT ![t] = idxs[Len(idxs)]]
                /\ Goto(t, "use")
                /\ UNCHANGED <<idxs, open, left, alive>>

\* bug: the index is read from the other end than the one popped
TakeBottom(t) == /\ pc[t] = "lock"
                 /\ idxs # <<>>
                 /\ conn' = [conn EXCEPT ![t] = Head(idxs)]
                 /\ idxs' = SubSeq(idxs, 1, Len(idxs) - 1)
                 /\ Goto(t, "use")
                 /\ UNCHANGED <<open, left, alive>>

Take(t) == /\ pc[t] = "lock"
           /\ idxs # <<>>
           /\ conn' = [conn EXCEPT ![t] = idxs[Len(idxs)]]
           /\ idxs' = SubSeq(idxs, 1, Len(idxs) - 1)
           /\ Goto(t, "use")
           /\ UNCHANGED <<open, left, alive>>

Sleep(t) == /\ pc[t] = "lock"
            /\ idxs = <<>>
            /\ Goto(t, "wait")
            /\ UNCHANGED <<idxs, conn, open, left, alive>>

lock(t) == Take(t) \/ Sleep(t)

\* a condition variable may wake without a notification
SpuriousWakeup(t) == /\ pc[t] = "wait"
                     /\ Goto(t, "lock")
                     /\ UNCHANGED <<idxs, conn, open, left, alive>>

\* bug: notify_one, and only when the stack was empty
unlockNotifyOne(t) ==
    /\ pc[t] \in {"use", "done"}
    /\ idxs' = Append(idxs, conn[t])
    /\ conn' = [conn EXCEPT ![t] = NoIdx]
    /\ LET asleep == {s \in Threads : pc[s] = "wait"}
       IN  IF idxs = <<>> /\ asleep # {}
           THEN \E w \in asleep : pc' = [pc EXCEPT ![t] = "idle", ![w] = "lock"]
           ELSE Goto(t, "idle")
    /\ UNCHANGED <<open, left, alive>>

\* ~DatabaseConnection: push the index and notify_all under the mutex
unlock(t) == /\ pc[t] \in {"use", "done"}
             /\ idxs' = Append(idxs, conn[t])
             /\ conn' = [conn EXCEPT ![t] = NoIdx]
             /\ pc' = [s \in Threads |-> IF s = t THEN "idle"
                                         ELSE IF pc[s] = "wait" THEN "lock"
                                         ELSE pc[s]]
             /\ UNCHANGED <<open, left, alive>>

-----------------------------------------------------------------------------
\* TransactionLock's constructor.  When begin() throws, no TransactionLock
\* exists, the handler catches and still holds its connection: no change here.
begin(t) == /\ pc[t] = "use"
            /\ open' = open \cup {conn[t]}
            /\ Goto(t, "tx")
            /\ UNCHANGED <<idxs, conn, left, alive>>

commit(t) == /\ pc[t] = "tx"
             /\ open' = open \ {conn[t]}
             /\ Goto(t, "done")
             /\ UNCHANGED <<idxs, conn, left, alive>>

\* bug: the destructor does not roll back
ThrowNoRollback(t) == /\ pc[t] = "tx"
                      /\ Goto(t, "done")
                      /\ UNCHANGED <<idxs, conn, open, left, alive>>

\* a statement of the transaction, or the commit itself, throws
Throw(t) == /\ pc[t] = "tx"
            /\ Goto(t, "unwind")
            /\ UNCHANGED <<idxs, conn, open, left, alive>>

rollback(t) == /\ pc[t] = "unwind"
               /\ open' = open \ {conn[t]}
               /\ Goto(t, "done")
               /\ UNCHANGED <<idxs, conn, left, alive>>

\* rollback() throws out of the destructor, or a handler lets a db::Exception
\* reach the noexcept Core::dispatch: std::terminate
Terminate(t) == /\ pc[t] \in {"use", "unwind", "done"}
                /\ alive' = FALSE
                /\ UNCHANGED <<idxs, pc, conn, open, left>>

Step(t) == \/ lock(t) \/ SpuriousWakeup(t) \/ unlock(t) \/ begin(t)
           \/ commit(t) \/ Throw(t) \/ rollback(t) \/ Terminate(t)

\* the steps a scheduled thread takes by itself until its request is over
Progress(t) == lock(t) \/ unlock(t) \/ commit(t) \/ rollback(t)

\* every request has been handled, or the process is gone
Finished == /\ alive => \A t \in Threads : pc[t] = "idle" /\ left[t] = 0
            /\ UNCHANGED vars

Next == \/ alive /\ \E t \in Threads : Request(t) \/ Step(t)
        \/ Finished

Spec == Init /\ [][Next]_vars

\* Every thread is scheduled, and a handler runs a finite number of statements.
\* Nothing is assumed of the mutex or of wakeups beyond that.
FairSpec == Spec /\ \A t \in Threads : WF_vars(alive /\ Progress(t))

-----------------------------------------------------------------------------
Idle(i) == \E k \in DOMAIN idxs : idxs[k] = i
Held(i) == \E t \in Threads : conn[t] = i

(* The pool neither loses nor duplicates a connection and never hands one to
   two threads: each index is once on the stack or with exactly one thread, and
   exactly the threads that are inside a handler hold one.  A lost index is a
   connection no request can ever use again (DB.h lock, unlock and
   ~DatabaseConnection). *)
ConnectionsConserved ==
    /\ \A t \in Threads : (conn[t] # NoIdx) <=> (pc[t] \in Holding)
    /\ \A t, u \in Threads : t # u /\ conn[t] # NoIdx => conn[t] # conn[u]
    /\ \A j, k \in DOMAIN idxs : j # k => idxs[j] # idxs[k]
    /\ \A i \in Indexes : Idle(i) <=> ~Held(i)

(* No thread sleeps in cv.wait while a connection is idle: unlock() notifies
   all waiters under the mutex, so a wakeup is never lost (DB.h:66-67, 76-78). *)
NoSleeperWhileIdle == idxs # <<>> => \A t \in Threads : pc[t] # "wait"

(* A connection on the stack has no transaction open, so the next handler that
   gets it never runs inside another request's transaction: TransactionLock
   commits or rolls back before ~DatabaseConnection runs, also when a statement
   or the commit throws (DB.h:272-276). *)
IdleConnectionsClean == \A i \in open : ~Idle(i)

(* Every handler that asks for a connection gets one, unless the process is
   terminated, whatever order the woken threads win the mutex in. *)
EveryRequestServed ==
    \A t \in Threads : pc[t] \in {"lock", "wait"} ~> (pc[t] \in Holding \/ ~alive)

(* DatabasePool implements a pool of exclusive resources: the stack is the set
   of free connections, and a DatabaseConnection object owns what it holds. *)
Pool == INSTANCE ResourcePool WITH
            Resources <- Indexes, Clients <- Threads, NoResource <- NoIdx,
            free <- {i \in Indexes : Idle(i)}, owned <- conn

ImplementsPool == Pool!Spec
=============================================================================
