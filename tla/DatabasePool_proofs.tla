------------------------ MODULE DatabasePool_proofs ------------------------
(***************************************************************************)
(* The pool's invariants for every set of threads and every pool size, and *)
(* that it implements ResourcePool.                                        *)
(***************************************************************************)
EXTENDS DatabasePool, SequenceTheorems, TLAPS

\* The connections with a transaction are those of the threads inside one.
OpenIsHeld == \A i \in open : \E t \in Threads : conn[t] = i /\ pc[t] \in {"tx", "unwind"}

IInv == TypeOK /\ ConnectionsConserved /\ NoSleeperWhileIdle /\ OpenIsHeld

-----------------------------------------------------------------------------
\* What std::stack::pop leaves: all elements but the last.
LEMMA PopProperties ==
    ASSUME NEW S, NEW s \in Seq(S), s # <<>>
    PROVE  /\ SubSeq(s, 1, Len(s) - 1) \in Seq(S)
           /\ Len(s) \in Nat \ {0}
           /\ s[Len(s)] \in S
           /\ DOMAIN SubSeq(s, 1, Len(s) - 1) = 1 .. Len(s) - 1
           /\ \A i \in 1 .. Len(s) - 1 : SubSeq(s, 1, Len(s) - 1)[i] = s[i]
<1>1. Len(s) \in Nat \ {0} /\ s \in [1 .. Len(s) -> S]
  BY EmptySeq, LenProperties
<1>2. /\ SubSeq(s, 1, Len(s) - 1) \in Seq(S)
      /\ Len(SubSeq(s, 1, Len(s) - 1)) = IF 1 <= Len(s) - 1 THEN Len(s) - 1 - 1 + 1 ELSE 0
      /\ \A i \in 1 .. Len(s) - 1 - 1 + 1 : SubSeq(s, 1, Len(s) - 1)[i] = s[1 + i - 1]
  <2>1. Len(s) - 1 \in Int /\ \A i \in 1 .. Len(s) - 1 : s[i] \in S
    BY <1>1
  <2> QED  BY <2>1, SubSeqProperties
<1> QED  BY <1>1, <1>2, LenProperties

\* What std::stack::push leaves: the old elements and, on top, the new one.
LEMMA PushProperties ==
    ASSUME NEW S, NEW s \in Seq(S), NEW e \in S
    PROVE  /\ Append(s, e) \in Seq(S)
           /\ Append(s, e) # <<>>
           /\ Len(s) \in Nat
           /\ DOMAIN s = 1 .. Len(s)
           /\ DOMAIN Append(s, e) = 1 .. Len(s) + 1
           /\ \A i \in 1 .. Len(s) : Append(s, e)[i] = s[i]
           /\ Append(s, e)[Len(s) + 1] = e
BY AppendProperties, LenProperties

-----------------------------------------------------------------------------
LEMMA InitInv == Init => IInv
<1> SUFFICES ASSUME Init PROVE IInv
  OBVIOUS
<1> USE DEF Init, Indexes, NoIdx
<1>1. /\ idxs \in Seq(Indexes) /\ DOMAIN idxs = 1 .. Size
      /\ \A k \in 1 .. Size : idxs[k] = k - 1
  <2>1. idxs \in [1 .. Size -> Indexes]
    BY SizeAssumption
  <2> QED  BY <2>1, SizeAssumption, SeqDef
<1>2. TypeOK
  BY <1>1, MaxRequestsAssumption DEF TypeOK, Locations
<1>3. ConnectionsConserved
  <2>1. \A t \in Threads : (conn[t] # NoIdx) <=> (pc[t] \in Holding)
    BY DEF Holding
  <2>2. \A j, k \in DOMAIN idxs : j # k => idxs[j] # idxs[k]
    BY <1>1
  <2>3. \A i \in Indexes : Idle(i) /\ ~Held(i)
    <3> SUFFICES ASSUME NEW i \in Indexes PROVE Idle(i) /\ ~Held(i)
      OBVIOUS
    <3>1. i + 1 \in 1 .. Size /\ idxs[i + 1] = i
      BY <1>1, SizeAssumption
    <3> QED  BY <3>1, <1>1 DEF Idle, Held
  <2> QED  BY <2>1, <2>2, <2>3 DEF ConnectionsConserved
<1>4. NoSleeperWhileIdle /\ OpenIsHeld
  BY DEF NoSleeperWhileIdle, OpenIsHeld
<1> QED  BY <1>2, <1>3, <1>4 DEF IInv

\* lock() finds an idle connection.
LEMMA TakeInv ==
    ASSUME IInv, NEW t \in Threads, Take(t)
    PROVE  IInv'
<1> USE DEF IInv, Indexes, NoIdx
<1>1. /\ Len(idxs) \in Nat \ {0} /\ idxs[Len(idxs)] \in Indexes
      /\ DOMAIN idxs = 1 .. Len(idxs)
      /\ idxs' \in Seq(Indexes) /\ DOMAIN idxs' = 1 .. Len(idxs) - 1
      /\ \A k \in 1 .. Len(idxs) - 1 : idxs'[k] = idxs[k]
  BY PopProperties, LenProperties DEF Take, TypeOK
<1>t. /\ conn[t] = NoIdx /\ conn'[t] = idxs[Len(idxs)]
      /\ \A u \in Threads \ {t} : conn'[u] = conn[u]
  BY DEF Take, TypeOK, ConnectionsConserved, Holding
<1>2. TypeOK'
  BY <1>1 DEF TypeOK, Take, Goto, Locations, Holding
<1>3. ConnectionsConserved'
  <2>1. Idle(idxs[Len(idxs)]) /\ ~Held(idxs[Len(idxs)])
    BY <1>1 DEF Idle, ConnectionsConserved
  <2>2. \A u \in Threads : (conn[u] # NoIdx)' <=> (pc[u] \in Holding)'
    BY <1>1, <1>t DEF TypeOK, Take, Goto, Holding, ConnectionsConserved
  <2>3. \A u, v \in Threads : u # v /\ conn'[u] # NoIdx => conn'[u] # conn'[v]
    BY <2>1, <1>t DEF Held, ConnectionsConserved
  <2>4. \A j, k \in DOMAIN idxs' : j # k => idxs'[j] # idxs'[k]
    BY <1>1 DEF ConnectionsConserved
  <2>5. ASSUME NEW i \in Indexes PROVE Idle(i)' <=> ~Held(i)'
    <3>1. CASE i = idxs[Len(idxs)]
      <4>1. Held(i)'
        BY <3>1, <1>t DEF Held
      <4>2. ~Idle(i)'
        <5> SUFFICES ASSUME NEW k \in 1 .. Len(idxs) - 1, idxs[k] = i PROVE FALSE
          BY <1>1 DEF Idle
        <5> QED  BY <3>1, <1>1 DEF ConnectionsConserved
      <4> QED  BY <4>1, <4>2
    <3>2. CASE i # idxs[Len(idxs)]
      <4>1. Held(i)' <=> Held(i)
        BY <3>2, <1>t DEF Held
      <4>2. Idle(i)' <=> Idle(i)
        BY <3>2, <1>1 DEF Idle
      <4> QED  BY <4>1, <4>2 DEF ConnectionsConserved
    <3> QED  BY <3>1, <3>2
  <2> QED  BY <2>2, <2>3, <2>4, <2>5 DEF ConnectionsConserved
<1>4. NoSleeperWhileIdle'
  BY DEF TypeOK, Take, Goto, NoSleeperWhileIdle
<1>5. OpenIsHeld'
  BY <1>t DEF TypeOK, Take, Goto, OpenIsHeld
<1> QED  BY <1>2, <1>3, <1>4, <1>5

\* ~DatabaseConnection returns the connection and wakes every sleeper.
LEMMA UnlockInv ==
    ASSUME IInv, NEW t \in Threads, unlock(t)
    PROVE  IInv'
<1> USE DEF IInv, Indexes, NoIdx
<1>1. /\ conn[t] \in Indexes /\ conn'[t] = NoIdx
      /\ \A u \in Threads \ {t} : conn'[u] = conn[u]
  BY DEF unlock, TypeOK, ConnectionsConserved, Holding
<1>2. /\ Len(idxs) \in Nat /\ DOMAIN idxs = 1 .. Len(idxs)
      /\ idxs' \in Seq(Indexes) /\ DOMAIN idxs' = 1 .. Len(idxs) + 1
      /\ \A k \in 1 .. Len(idxs) : idxs'[k] = idxs[k]
      /\ idxs'[Len(idxs) + 1] = conn[t]
  BY <1>1, PushProperties DEF unlock, TypeOK
<1>3. /\ pc'[t] = "idle"
      /\ \A u \in Threads \ {t} : pc'[u] = IF pc[u] = "wait" THEN "lock" ELSE pc[u]
  BY DEF unlock, TypeOK
<1>4. TypeOK'
  BY <1>2 DEF TypeOK, unlock, Locations, Holding
<1>5. ConnectionsConserved'
  <2>1. ~Idle(conn[t])
    BY <1>1 DEF Held, ConnectionsConserved
  <2>2. \A u \in Threads : (conn[u] # NoIdx)' <=> (pc[u] \in Holding)'
    BY <1>1, <1>3 DEF Holding, ConnectionsConserved
  <2>3. \A u, v \in Threads : u # v /\ conn'[u] # NoIdx => conn'[u] # conn'[v]
    BY <1>1 DEF ConnectionsConserved
  <2>4. \A j, k \in DOMAIN idxs' : j # k => idxs'[j] # idxs'[k]
    BY <1>2, <2>1 DEF Idle, ConnectionsConserved
  <2>5. ASSUME NEW i \in Indexes PROVE Idle(i)' <=> ~Held(i)'
    <3>1. CASE i = conn[t]
      <4>1. Idle(i)'
        BY <3>1, <1>2 DEF Idle
      <4>2. ~Held(i)'
        BY <3>1, <1>1 DEF Held, ConnectionsConserved
      <4> QED  BY <4>1, <4>2
    <3>2. CASE i # conn[t]
      <4>1. Held(i)' <=> Held(i)
        BY <3>2, <1>1 DEF Held
      <4>2. Idle(i)' <=> Idle(i)
        BY <3>2, <1>2 DEF Idle
      <4> QED  BY <4>1, <4>2 DEF ConnectionsConserved
    <3> QED  BY <3>1, <3>2
  <2> QED  BY <2>2, <2>3, <2>4, <2>5 DEF ConnectionsConserved
<1>6. NoSleeperWhileIdle'
  BY <1>3 DEF NoSleeperWhileIdle
<1>7. OpenIsHeld'
  BY <1>1, <1>3 DEF unlock, OpenIsHeld
<1> QED  BY <1>4, <1>5, <1>6, <1>7

\* A step that moves no connection and takes no thread into or out of a handler
\* leaves the connections conserved.
LEMMA QuietStep ==
    ASSUME IInv, NEW t \in Threads, NEW l, Goto(t, l), UNCHANGED <<idxs, conn>>,
           l \in Holding <=> pc[t] \in Holding
    PROVE  ConnectionsConserved'
BY DEF IInv, TypeOK, Goto, ConnectionsConserved, Idle, Held

LEMMA OtherStepInv ==
    ASSUME IInv, NEW t \in Threads,
           \/ Request(t) \/ Sleep(t) \/ SpuriousWakeup(t) \/ begin(t)
           \/ commit(t) \/ Throw(t) \/ rollback(t) \/ Terminate(t)
    PROVE  IInv'
<1>1. ASSUME Request(t) \/ Sleep(t) \/ SpuriousWakeup(t) PROVE IInv'
  <2>1. TypeOK'
    <3>1. pc' \in [Threads -> Locations]
      BY <1>1 DEF IInv, TypeOK, Request, Sleep, SpuriousWakeup, Goto, Locations
    <3>2. left' \in [Threads -> 0 .. MaxRequests]
      BY <1>1, MaxRequestsAssumption DEF IInv, TypeOK, Request, Sleep, SpuriousWakeup
    <3> QED  BY <3>1, <3>2, <1>1 DEF IInv, TypeOK, Request, Sleep, SpuriousWakeup
  <2>2. ConnectionsConserved'
    BY <1>1, QuietStep DEF Request, Sleep, SpuriousWakeup, Holding
  <2>3. NoSleeperWhileIdle'
    BY <1>1 DEF IInv, TypeOK, NoSleeperWhileIdle, Request, Sleep, SpuriousWakeup, Goto
  <2>4. OpenIsHeld'
    BY <1>1 DEF IInv, TypeOK, OpenIsHeld, Request, Sleep, SpuriousWakeup, Goto
  <2> QED  BY <2>1, <2>2, <2>3, <2>4 DEF IInv
<1>2. ASSUME begin(t) \/ commit(t) \/ Throw(t) \/ rollback(t) PROVE IInv'
  <2>1. conn[t] \in Indexes
    BY <1>2 DEF IInv, TypeOK, ConnectionsConserved, begin, commit, Throw, rollback, Holding
  <2>2. TypeOK'
    BY <1>2, <2>1 DEF IInv, TypeOK, begin, commit, Throw, rollback, Goto, Locations, Holding
  <2>3. ConnectionsConserved'
    BY <1>2, QuietStep DEF begin, commit, Throw, rollback, Holding
  <2>4. NoSleeperWhileIdle'
    BY <1>2 DEF IInv, TypeOK, NoSleeperWhileIdle, begin, commit, Throw, rollback, Goto
  <2>5. OpenIsHeld'
    BY <1>2 DEF IInv, TypeOK, OpenIsHeld, begin, commit, Throw, rollback, Goto
  <2> QED  BY <2>2, <2>3, <2>4, <2>5 DEF IInv
<1>3. ASSUME Terminate(t) PROVE IInv'
  <2>1. TypeOK'
    BY <1>3 DEF IInv, TypeOK, Terminate
  <2>2. ConnectionsConserved'
    BY <1>3 DEF IInv, ConnectionsConserved, Idle, Held, Terminate
  <2>3. NoSleeperWhileIdle' /\ OpenIsHeld'
    BY <1>3 DEF IInv, NoSleeperWhileIdle, OpenIsHeld, Terminate
  <2> QED  BY <2>1, <2>2, <2>3 DEF IInv
<1> QED  BY <1>1, <1>2, <1>3

LEMMA StutterInv == IInv /\ UNCHANGED vars => IInv'
BY DEF IInv, TypeOK, ConnectionsConserved, NoSleeperWhileIdle, OpenIsHeld, Idle, Held, vars

LEMMA NextInv == IInv /\ [Next]_vars => IInv'
<1> SUFFICES ASSUME IInv, [Next]_vars PROVE IInv'
  OBVIOUS
<1>1. ASSUME NEW t \in Threads, Request(t) \/ Step(t) PROVE IInv'
  BY <1>1, TakeInv, UnlockInv, OtherStepInv DEF Step, lock
<1>2. CASE Finished \/ UNCHANGED vars
  BY <1>2, StutterInv DEF Finished
<1> QED  BY <1>1, <1>2 DEF Next

-----------------------------------------------------------------------------
\* DB.h: every state of the pool satisfies the inductive invariant.
THEOREM PoolInvariant == Spec => []IInv
BY InitInv, NextInv, PTL DEF Spec

\* DB.h: the pool's variables keep their types.
THEOREM PoolTypeCorrect == Spec => []TypeOK
<1>1. IInv => TypeOK
  BY DEF IInv
<1> QED  BY <1>1, PoolInvariant, PTL

\* DB.h, lock, unlock and ~DatabaseConnection: for any number of threads and any
\* pool size no connection is lost, duplicated or shared.
THEOREM PoolConserves == Spec => []ConnectionsConserved
<1>1. IInv => ConnectionsConserved
  BY DEF IInv
<1> QED  BY <1>1, PoolInvariant, PTL

\* DB.h, cv.wait and notify_all: nobody sleeps while a connection is idle.
THEOREM PoolWakes == Spec => []NoSleeperWhileIdle
<1>1. IInv => NoSleeperWhileIdle
  BY DEF IInv
<1> QED  BY <1>1, PoolInvariant, PTL

\* DB.h, TransactionLock: no connection is returned inside a transaction.
THEOREM PoolReturnsClean == Spec => []IdleConnectionsClean
<1>1. IInv => IdleConnectionsClean
  BY DEF IInv, TypeOK, OpenIsHeld, ConnectionsConserved, IdleConnectionsClean, Held
<1> QED  BY <1>1, PoolInvariant, PTL

-----------------------------------------------------------------------------
\* A step that moves no connection is a stuttering step of ResourcePool.
LEMMA QuietIsStutter ==
    ASSUME UNCHANGED <<idxs, conn>>
    PROVE  UNCHANGED Pool!vars
BY DEF Pool!vars, Idle

\* DB.h: DatabasePool implements a pool of exclusive resources; lock() is its
\* Acquire, ~DatabaseConnection its Release, all other steps stutter.
THEOREM PoolImplements == Spec => ImplementsPool
<1>1. Init => Pool!Init
  <2> SUFFICES ASSUME Init PROVE Pool!Init
    OBVIOUS
  <2>1. ConnectionsConserved
    BY InitInv DEF IInv
  <2>2. \A i \in Indexes : ~Held(i)
    BY DEF Init, Held, Indexes, NoIdx
  <2>3. {i \in Indexes : Idle(i)} = Indexes
    BY <2>1, <2>2 DEF ConnectionsConserved
  <2> QED  BY <2>3 DEF Pool!Init, Init
<1>2. IInv /\ IInv' /\ [Next]_vars => [Pool!Next]_(Pool!vars)
  <2> SUFFICES ASSUME IInv, IInv', [Next]_vars
               PROVE  Pool!Next \/ UNCHANGED Pool!vars
    OBVIOUS
  <2>1. ASSUME NEW t \in Threads, Take(t) PROVE Pool!Acquire(t)
    <3> DEFINE r == idxs[Len(idxs)]
    <3>1. /\ r \in Indexes /\ Idle(r) /\ conn[t] = NoIdx
          /\ conn' = [conn EXCEPT ![t] = r]
      <4>1. Len(idxs) \in Nat \ {0} /\ r \in Indexes /\ DOMAIN idxs = 1 .. Len(idxs)
        BY <2>1, PopProperties, LenProperties DEF Take, IInv, TypeOK
      <4>2. Idle(r)
        BY <4>1 DEF Idle
      <4>3. conn' = [conn EXCEPT ![t] = r] /\ conn[t] = NoIdx
        BY <2>1 DEF Take, IInv, TypeOK, ConnectionsConserved, Holding
      <4> QED  BY <4>1, <4>2, <4>3
    <3>2. \A i \in Indexes : Held(i)' <=> (Held(i) \/ i = r)
      BY <3>1 DEF Held, IInv, TypeOK, Indexes, NoIdx
    <3>3. {i \in Indexes : Idle(i)}' = {i \in Indexes : Idle(i)} \ {r}
      BY <3>1, <3>2 DEF IInv, ConnectionsConserved
    <3> QED  BY <3>1, <3>3 DEF Pool!Acquire
  <2>2. ASSUME NEW t \in Threads, unlock(t) PROVE Pool!Release(t)
    <3>1. conn[t] \in Indexes /\ conn[t] # NoIdx /\ conn' = [conn EXCEPT ![t] = NoIdx]
      BY <2>2 DEF unlock, IInv, TypeOK, ConnectionsConserved, Holding
    <3>2. \A i \in Indexes : Held(i)' <=> (Held(i) /\ i # conn[t])
      BY <3>1 DEF Held, IInv, TypeOK, ConnectionsConserved, Indexes, NoIdx
    <3>3. {i \in Indexes : Idle(i)}' = {i \in Indexes : Idle(i)} \cup {conn[t]}
      BY <3>1, <3>2 DEF IInv, ConnectionsConserved
    <3> QED  BY <3>1, <3>3 DEF Pool!Release
  <2>3. ASSUME NEW t \in Threads,
               \/ Request(t) \/ Sleep(t) \/ SpuriousWakeup(t) \/ begin(t)
               \/ commit(t) \/ Throw(t) \/ rollback(t) \/ Terminate(t)
        PROVE  UNCHANGED Pool!vars
    BY <2>3, QuietIsStutter DEF Request, Sleep, SpuriousWakeup, begin, commit, Throw,
                                rollback, Terminate
  <2>4. CASE Finished \/ UNCHANGED vars
    BY <2>4, QuietIsStutter DEF Finished, vars
  <2> QED  BY <2>1, <2>2, <2>3, <2>4 DEF Next, Step, lock, Pool!Next
<1> QED  BY <1>1, <1>2, PoolInvariant, PTL DEF Spec, ImplementsPool, Pool!Spec
=============================================================================
