----------------------- MODULE ServiceRegistry_proofs -----------------------
(***************************************************************************)
(* Proofs about the service registry.                                      *)
(*                                                                         *)
(* The first half holds for any number of workers: RegistryTypes, which    *)
(* says for every statement of every handler what its local variables are, *)
(* and with it TypeOK.  The second half is about a server with one worker, *)
(* where RegistryInv ties the local variables to the tables: what a        *)
(* statement has found is still there when the next one uses it.           *)
(* UriUnique, RegisteredIsUsable, QueryExact, UnregisterIsOwn and          *)
(* ImplementsMap follow from it.                                           *)
(***************************************************************************)
EXTENDS ServiceRegistry, TLAPS

\* the statements of DbWrapper::checkAndInsertValue(s)
Storing == {"check", "insert", "recheck"}

\* a is a statement of the handler of request r
StepOf(r, a) ==
    /\ a = [step |-> a.step, table |-> a.table]
    /\ \/ a.step = "reply" /\ a.table = Entry
       \/ a.step = "reject" /\ a.table = Entry /\ r.kind = "malformed"
       \/ a.step \in Storing /\ a.table \in Tables /\ r.kind = "register"
       \/ a.step \in Storing \cup {"select"} /\ a.table = Definition /\ r.kind = "post_services"
       \/ a.step \in Storing \cup {"select"} /\ a.table = System /\ r.kind = "post_systems"
       \/ a.step = "select" /\ a.table \in Tables \ {Connection} /\ r.kind = "register"
       \/ r.kind \in {"put", "patch"} /\ a.step \in {"update", "select"} /\ a.table = r.table
       \/ r.kind = "delete" /\ a.step = "delete" /\ a.table = r.table
       \/ a.step = "delete" /\ a.table \in {Connection, Entry} /\ r.kind = "unregister"
       \/ a.step = "find" /\ a.table \in {Definition, System, Entry} /\ r.kind = "unregister"
       \/ a.step = "find" /\ a.table = Definition /\ r.kind = "query"
       \/ a.step = "entries" /\ a.table = Entry /\ r.kind = "query"
       \/ a.step = "connections" /\ a.table = Connection /\ r.kind = "query"
       \/ a.step = "provider" /\ a.table = System /\ r.kind = "query"

Answers == [uri : Uris, names : SUBSET STRING, system : SystemRow]

LocalVariables ==
    [service : Nat, system : Nat, interfaces : Seq(Nat), entry : Nat, k : Ids,
     rows : SUBSET [id : Ids, row : RowOf(Entry)], names : SUBSET STRING,
     found : SUBSET Answers, unread : BOOLEAN]

\* how far the two loops of a registration over its interfaces have come
LoopAt(r, t, x) ==
    /\ t \in {Definition, System} => x.k = 1 /\ x.interfaces = <<>>
    /\ t = Interface => Len(x.interfaces) + 1 = x.k /\ x.k <= Len(r.interfaces)
    /\ t = Entry => Len(x.interfaces) = Len(r.interfaces)
    /\ t = Connection => Len(x.interfaces) = Len(r.interfaces) /\ x.k <= Len(r.interfaces)

Looping(r, a, x) ==
    r.kind = "register" /\ a.step \in Storing => LoopAt(r, a.table, x)

\* a worker that serves request r is at a, with local variables x and reply y
Serving(r, a, x, y) ==
    /\ r \in Requests
    /\ StepOf(r, a)
    /\ x \in LocalVariables
    /\ Looping(r, a, x)
    /\ a.step \in {"connections", "provider"} => x.rows # {}
    /\ a.step # "reply" => y = NoReply

WorkerOK(r, a, x, y) ==
    \/ r = NoJob /\ a = Idle /\ x = Locals /\ y = NoReply
    \/ Serving(r, a, x, y)

WorkersOK == /\ DOMAIN job = Workers /\ DOMAIN at = Workers
             /\ DOMAIN v = Workers /\ DOMAIN reply = Workers
             /\ \A w \in Workers : WorkerOK(job[w], at[w], v[w], reply[w])

TablesOK == /\ DOMAIN db = Tables /\ DOMAIN nextId = Tables
            /\ \A t \in Tables : /\ nextId[t] \in Ids
                                 /\ DOMAIN db[t] \subseteq 1 .. (nextId[t] - 1)
                                 /\ db[t] \in [DOMAIN db[t] -> RowOf(t)]

CountsOK == /\ cascade \in BOOLEAN /\ up \in BOOLEAN
            /\ served \in 0 .. MaxRequests
            /\ failures \in 0 .. MaxFailures

RegistryTypes == TablesOK /\ WorkersOK /\ CountsOK

-----------------------------------------------------------------------------
(* Tables, requests and steps                                              *)

\* The five tables are different tables.
LEMMA TableNames ==
    /\ Definition # System /\ Definition # Interface /\ Definition # Entry
    /\ Definition # Connection /\ System # Interface /\ System # Entry
    /\ System # Connection /\ Interface # Entry /\ Interface # Connection
    /\ Entry # Connection
BY DEF Definition, System, Interface, Entry, Connection

\* The rows of each table.
LEMMA RowTypes ==
    /\ RowOf(Definition) = [name : STRING]
    /\ RowOf(System) = SystemRow
    /\ RowOf(Interface) = [name : STRING]
    /\ RowOf(Entry) = [service : Ids, system : Ids, uri : Uris]
    /\ RowOf(Connection) = [entry : Ids, interface : Ids]
BY TableNames, Zenon DEF RowOf

\* What the parsers guarantee of a request, by its kind.
LEMMA RequestFields ==
    ASSUME NEW r \in Requests
    PROVE  /\ r.kind \in {"register", "unregister", "query", "post_services", "post_systems",
                          "put", "patch", "delete", "malformed"}
           /\ r.kind = "register" => /\ r.service \in STRING /\ r.system \in SystemRow
                                     /\ r.uri \in Uris
                                     /\ r.interfaces \in Seq(STRING) /\ r.interfaces # <<>>
           /\ r.kind = "post_services" => r.service \in STRING
           /\ r.kind = "post_systems" => r.system \in SystemRow
           /\ r.kind \in {"put", "patch"} =>
                 /\ r.id \in Int
                 /\ \/ r.table = Definition /\ r.row \in [name : STRING]
                    \/ r.table = System /\ r.row \in SystemRow
           /\ r.kind = "delete" => r.id \in Int /\ r.table \in {Definition, System, Entry}
<1>1. r \in WellFormed \/ r = [kind |-> "malformed"]
  BY RequestsAssumption, Zenon
<1>2. CASE r \in [kind : {"register"}, service : STRING, system : SystemRow, uri : Uris,
                  interfaces : Seq(STRING) \ {<<>>}]
  BY <1>2
<1>3. CASE r \in [kind : {"unregister"}, service : STRING, system : SystemRow]
  BY <1>3
<1>4. CASE r \in [kind : {"query"}, service : STRING, required : SUBSET STRING]
  BY <1>4
<1>5. CASE r \in [kind : {"post_services"}, service : STRING, interfaces : {<<>>}]
  BY <1>5
<1>6. CASE r \in [kind : {"post_systems"}, system : SystemRow, interfaces : {<<>>}]
  BY <1>6
<1>7. CASE r \in [kind : {"put", "patch"}, table : {Definition}, id : Int, row : [name : STRING]]
  BY <1>7
<1>8. CASE r \in [kind : {"put", "patch"}, table : {System}, id : Int, row : SystemRow]
  BY <1>8
<1>9. CASE r \in [kind : {"delete"}, table : {Definition, System, Entry}, id : Int]
  BY <1>9
<1>10. CASE r = [kind |-> "malformed"]
  BY <1>10
<1>11. QED
  BY <1>1, <1>2, <1>3, <1>4, <1>5, <1>6, <1>7, <1>8, <1>9, <1>10, Zenon DEF WellFormed

\* No request is NoJob, and a worker that serves one is not at Idle.
LEMMA ServingIsBusy ==
    ASSUME NEW r, NEW a, NEW x, NEW y, Serving(r, a, x, y)
    PROVE  r # NoJob /\ a # Idle
<1>1. r.kind # "none"
  BY RequestFields DEF Serving
<1>2. a.step # "idle"
  BY DEF Serving, StepOf, Storing
<1>3. QED
  BY <1>1, <1>2 DEF NoJob, Idle

\* The step that replies is a step of every request.
LEMMA ReplyStep ==
    ASSUME NEW r
    PROVE  StepOf(r, [step |-> "reply", table |-> Entry])
BY DEF StepOf

\* Only worker w moves.
Moves(w) ==
    /\ DOMAIN job' = Workers /\ DOMAIN at' = Workers
    /\ DOMAIN v' = Workers /\ DOMAIN reply' = Workers
    /\ \A u \in Workers \ {w} : /\ job'[u] = job[u] /\ at'[u] = at[u]
                                /\ v'[u] = v[u] /\ reply'[u] = reply[u]

\* It is enough to look at the worker that moves.
LEMMA WorkerMoves ==
    ASSUME WorkersOK, NEW w \in Workers, Moves(w),
           WorkerOK(job'[w], at'[w], v'[w], reply'[w])
    PROVE  WorkersOK'
<1>1. ASSUME NEW u \in Workers PROVE WorkerOK(job'[u], at'[u], v'[u], reply'[u])
  <2>1. CASE u = w
    BY <2>1, Zenon
  <2>2. CASE u # w
    <3>1. job'[u] = job[u] /\ at'[u] = at[u] /\ v'[u] = v[u] /\ reply'[u] = reply[u]
      BY <2>2, Zenon DEF Moves
    <3>2. QED
      BY <3>1, Zenon DEF WorkersOK
  <2>3. QED
    BY <2>1, <2>2, Zenon
<1>2. QED
  BY <1>1, Zenon DEF WorkersOK, Moves

-----------------------------------------------------------------------------
(* The tables                                                              *)

\* An INSERT of a row of the right type.
LEMMA InsertTyped ==
    ASSUME TablesOK, NEW t \in Tables, NEW row \in RowOf(t), InsertRow(t, row)
    PROVE  TablesOK'
<1> DEFINE n == nextId[t]
           T == [i \in DOMAIN db[t] \cup {n} |-> IF i = n THEN row ELSE db[t][i]]
<1>1. n \in Nat /\ n # 0 /\ DOMAIN db[t] \subseteq 1 .. (n - 1)
  BY DEF TablesOK, Ids
<1>2. T \in [DOMAIN db[t] \cup {n} -> RowOf(t)]
  BY Zenon DEF TablesOK
<1>3. db' = [db EXCEPT ![t] = T] /\ nextId' = [nextId EXCEPT ![t] = n + 1]
  BY Zenon DEF InsertRow
<1>4. DOMAIN db' = Tables /\ DOMAIN nextId' = Tables
  BY <1>3, Zenon DEF TablesOK
<1>5. db'[t] = T /\ nextId'[t] = n + 1
  BY <1>3, Zenon DEF TablesOK
<1>6. /\ nextId'[t] \in Ids
      /\ DOMAIN db'[t] \subseteq 1 .. (nextId'[t] - 1)
      /\ db'[t] \in [DOMAIN db'[t] -> RowOf(t)]
  <2>1. DOMAIN T = DOMAIN db[t] \cup {n}
    BY Zenon
  <2>2. DOMAIN db[t] \cup {n} \subseteq 1 .. ((n + 1) - 1) /\ n + 1 \in Ids
    BY <1>1 DEF Ids
  <2>3. QED
    BY <1>2, <1>5, <2>1, <2>2, Zenon
<1>7. ASSUME NEW u \in Tables, u # t
      PROVE  /\ nextId'[u] \in Ids
             /\ DOMAIN db'[u] \subseteq 1 .. (nextId'[u] - 1)
             /\ db'[u] \in [DOMAIN db'[u] -> RowOf(u)]
  <2>1. db'[u] = db[u] /\ nextId'[u] = nextId[u]
    BY <1>3, <1>7, Zenon DEF TablesOK
  <2>2. QED
    BY <2>1, Zenon DEF TablesOK
<1>8. QED
  BY <1>4, <1>6, <1>7, Zenon DEF TablesOK

\* What is left of a table when rows are deleted.
LEMMA WithoutRows ==
    ASSUME NEW t, NEW ids
    PROVE  /\ DOMAIN Without(t, ids) = DOMAIN db[t] \ ids
           /\ \A i \in DOMAIN db[t] \ ids : Without(t, ids)[i] = db[t][i]
           /\ \A R : db[t] \in [DOMAIN db[t] -> R] =>
                        Without(t, ids) \in [DOMAIN Without(t, ids) -> R]
BY Zenon DEF Without

\* A DELETE.
LEMMA DeleteTyped ==
    ASSUME TablesOK, NEW t, NEW ids, DeleteRows(t, ids), nextId' = nextId
    PROVE  TablesOK'
<1>1. db' = [u \in Tables |-> Without(u, Deleted(t, ids, u))]
  BY Zenon DEF DeleteRows
<1>2. DOMAIN db' = Tables /\ DOMAIN nextId' = Tables
  BY <1>1, Zenon DEF TablesOK
<1>3. ASSUME NEW u \in Tables
      PROVE  /\ nextId'[u] \in Ids
             /\ DOMAIN db'[u] \subseteq 1 .. (nextId'[u] - 1)
             /\ db'[u] \in [DOMAIN db'[u] -> RowOf(u)]
  <2>1. db'[u] = Without(u, Deleted(t, ids, u))
    BY <1>1, Zenon
  <2>2. /\ nextId[u] \in Ids
        /\ DOMAIN db[u] \subseteq 1 .. (nextId[u] - 1)
        /\ db[u] \in [DOMAIN db[u] -> RowOf(u)]
    BY Zenon DEF TablesOK
  <2>3. /\ DOMAIN Without(u, Deleted(t, ids, u)) = DOMAIN db[u] \ Deleted(t, ids, u)
        /\ Without(u, Deleted(t, ids, u)) \in
              [DOMAIN Without(u, Deleted(t, ids, u)) -> RowOf(u)]
    BY <2>2, WithoutRows, Zenon
  <2>4. DOMAIN db'[u] \subseteq DOMAIN db[u] /\ nextId'[u] = nextId[u]
    BY <2>1, <2>3, Zenon
  <2>5. DOMAIN db'[u] \subseteq 1 .. (nextId[u] - 1)
    BY <2>2, <2>4, Zenon
  <2>6. QED
    BY <2>1, <2>2, <2>3, <2>4, <2>5, Zenon
<1>4. QED
  BY <1>2, <1>3, Zenon DEF TablesOK

\* An UPDATE of the row with the given id, if there is one.
LEMMA UpdateTyped ==
    ASSUME TablesOK, NEW t \in Tables, NEW id, NEW row,
           id \in DOMAIN db[t] => row \in RowOf(t),
           db' = IF id \in DOMAIN db[t] THEN [db EXCEPT ![t][id] = row] ELSE db,
           nextId' = nextId
    PROVE  TablesOK'
<1>1. CASE id \notin DOMAIN db[t]
  BY <1>1, Zenon DEF TablesOK
<1>2. CASE id \in DOMAIN db[t]
  <2> DEFINE T == [db[t] EXCEPT ![id] = row]
  <2>1. db' = [db EXCEPT ![t] = T]
    BY <1>2, Zenon
  <2>2. DOMAIN db' = Tables /\ db'[t] = T
    BY <2>1, Zenon DEF TablesOK
  <2>3. DOMAIN T = DOMAIN db[t] /\ T \in [DOMAIN db[t] -> RowOf(t)]
    BY <1>2, Zenon DEF TablesOK
  <2>4. ASSUME NEW u \in Tables, u # t PROVE db'[u] = db[u]
    BY <2>1, <2>4, Zenon DEF TablesOK
  <2>5. QED
    BY <2>2, <2>3, <2>4, Zenon DEF TablesOK
<1>3. QED
  BY <1>1, <1>2, Zenon

\* The initial tables are empty.
LEMMA InitTyped == Init => RegistryTypes
<1> SUFFICES ASSUME Init PROVE RegistryTypes
  OBVIOUS
<1>1. TablesOK
  <2>1. DOMAIN db = Tables /\ DOMAIN nextId = Tables
    BY DEF Init
  <2>2. ASSUME NEW t \in Tables
        PROVE  /\ nextId[t] \in Ids
               /\ DOMAIN db[t] \subseteq 1 .. (nextId[t] - 1)
               /\ db[t] \in [DOMAIN db[t] -> RowOf(t)]
    <3>1. db[t] = <<>> /\ nextId[t] = 1
      BY Zenon DEF Init
    <3>2. DOMAIN <<>> = {} /\ 1 \in Ids
      BY DEF Ids
    <3>3. <<>> \in [{} -> RowOf(t)]
      OBVIOUS
    <3>4. QED
      BY <3>1, <3>2, <3>3
  <2>3. QED
    BY <2>1, <2>2, Zenon DEF TablesOK
<1>2. WorkersOK
  BY Zenon DEF Init, WorkersOK, WorkerOK
<1>3. CountsOK
  BY BoundsAssumption DEF Init, CountsOK
<1>4. QED
  BY <1>1, <1>2, <1>3, Zenon DEF RegistryTypes

-----------------------------------------------------------------------------
(* The worker that moves                                                   *)

\* A worker that is not idle serves a request.
LEMMA Busy ==
    ASSUME WorkersOK, NEW w \in Workers, at[w].step # "idle"
    PROVE  Serving(job[w], at[w], v[w], reply[w])
<1>1. at[w] # Idle
  BY DEF Idle
<1>2. QED
  BY <1>1, Zenon DEF WorkersOK, WorkerOK

\* An idle worker has the initial values.
LEMMA IdleWorker ==
    ASSUME WorkersOK, NEW w \in Workers, at[w] = Idle
    PROVE  job[w] = NoJob /\ v[w] = Locals /\ reply[w] = NoReply
BY ServingIsBusy, Zenon DEF WorkersOK, WorkerOK

\* The worker's local variables are x after the step.
SetsLocals(w, x) == v' = [v EXCEPT ![w] = x] \/ (v' = v /\ x = v[w])

\* Its next statement is b.
GoesTo(w, b) == at' = [at EXCEPT ![w] = b]

\* The worker goes on to statement b.
LEMMA GoesOn ==
    ASSUME WorkersOK, NEW w \in Workers, NEW b, NEW x,
           GoesTo(w, b), SetsLocals(w, x), job' = job, reply' = reply,
           Serving(job[w], b, x, reply[w])
    PROVE  WorkersOK'
<1>1. Moves(w)
  BY Zenon DEF Moves, WorkersOK, SetsLocals, GoesTo
<1>2. at'[w] = b /\ v'[w] = x /\ job'[w] = job[w] /\ reply'[w] = reply[w]
  BY Zenon DEF WorkersOK, SetsLocals, GoesTo
<1>3. WorkerOK(job'[w], at'[w], v'[w], reply'[w])
  BY <1>2, Zenon DEF WorkerOK
<1>4. QED
  BY <1>1, <1>3, WorkerMoves, Zenon

\* The worker makes its reply.
LEMMA Replies ==
    ASSUME WorkersOK, NEW w \in Workers, NEW status, NEW found, NEW x \in LocalVariables,
           at[w].step # "idle", Reply(w, status, found),
           SetsLocals(w, x), job' = job
    PROVE  WorkersOK'
<1> DEFINE b == [step |-> "reply", table |-> Entry]
           y == [status |-> status, found |-> found]
<1>1. at' = [at EXCEPT ![w] = b] /\ reply' = [reply EXCEPT ![w] = y]
  BY Zenon DEF Reply, Goto
<1>2. Moves(w)
  BY <1>1, Zenon DEF Moves, WorkersOK, SetsLocals
<1>3. at'[w] = b /\ v'[w] = x /\ job'[w] = job[w] /\ reply'[w] = y
  BY <1>1, Zenon DEF WorkersOK, SetsLocals
<1>4. b.step = "reply"
  BY Zenon
<1>5. Looping(job[w], b, x)
  BY <1>4 DEF Looping, Storing
<1>6. job[w] \in Requests /\ StepOf(job[w], b)
  BY Busy, ReplyStep, Zenon DEF Serving
<1>7. Serving(job[w], b, x, y)
  BY <1>4, <1>5, <1>6 DEF Serving
<1>8. WorkerOK(job'[w], at'[w], v'[w], reply'[w])
  BY <1>3, <1>7, Zenon DEF WorkerOK
<1>9. QED
  BY <1>2, <1>8, WorkerMoves, Zenon

\* The worker makes its reply and leaves its local variables alone.
LEMMA RepliesOnly ==
    ASSUME WorkersOK, NEW w \in Workers, NEW status, NEW found,
           at[w].step # "idle", Reply(w, status, found), v' = v, job' = job
    PROVE  WorkersOK'
<1>1. v[w] \in LocalVariables
  BY Busy, Zenon DEF Serving
<1>2. SetsLocals(w, v[w])
  BY Zenon DEF SetsLocals
<1>3. QED
  BY <1>1, <1>2, Replies, Zenon

\* The initial values of the local variables.
LEMMA LocalsTyped == Locals \in LocalVariables /\ Locals.k = 1 /\ Locals.interfaces = <<>>
BY DEF Locals, LocalVariables, Ids, NoId

\* The first statement of a handler.
LEMMA FirstServes ==
    ASSUME NEW r \in Requests
    PROVE  Serving(r, First(r), Locals, NoReply)
<1> DEFINE a == First(r)
<1>1. /\ a = [step |-> a.step, table |-> a.table] 
      /\ \/ r.kind = "register" /\ a.step = "check" /\ a.table = Definition
         \/ r.kind = "post_services" /\ a.step = "check" /\ a.table = Definition
         \/ r.kind = "post_systems" /\ a.step = "check" /\ a.table = System
         \/ r.kind \in {"unregister", "query"} /\ a.step = "find" /\ a.table = Definition
         \/ r.kind = "delete" /\ a.step = "delete" /\ a.table = r.table
         \/ r.kind \in {"put", "patch"} /\ a.step = "update" /\ a.table = r.table
         \/ r.kind = "malformed" /\ a.step = "reject" /\ a.table = Entry
  <2>1. CASE r.kind = "register"
    BY <2>1 DEF First
  <2>2. CASE r.kind = "post_services"
    BY <2>2 DEF First
  <2>3. CASE r.kind = "post_systems"
    BY <2>3 DEF First
  <2>4. CASE r.kind \in {"unregister", "query"}
    BY <2>4 DEF First
  <2>5. CASE r.kind = "delete"
    BY <2>5 DEF First
  <2>6. CASE r.kind \in {"put", "patch"}
    BY <2>6 DEF First
  <2>7. CASE r.kind = "malformed"
    BY <2>7 DEF First
  <2>8. QED
    BY <2>1, <2>2, <2>3, <2>4, <2>5, <2>6, <2>7, RequestFields, Zenon
<1> HIDE DEF a
<1>2. StepOf(r, a)
  BY <1>1 DEF StepOf, Storing, Tables
<1>3. a.step \notin {"connections", "provider", "reply"}
  BY <1>1
<1>4. Looping(r, a, Locals)
  <2>1. LoopAt(r, Definition, Locals)
    BY LocalsTyped, TableNames, Zenon DEF LoopAt
  <2>2. r.kind = "register" => a.table = Definition
    BY <1>1
  <2>3. QED
    BY <2>1, <2>2, Zenon DEF Looping
<1>5. QED
  BY <1>2, <1>3, <1>4, LocalsTyped DEF Serving, a

-----------------------------------------------------------------------------
(* Storing: checkAndInsertValue(s)                                         *)

\* The fields of the local variables.
LEMMA LocalFields ==
    ASSUME NEW x \in LocalVariables
    PROVE  /\ x.service \in Nat /\ x.system \in Nat /\ x.entry \in Nat
           /\ x.interfaces \in Seq(Nat) /\ x.k \in Nat \ {0}
           /\ x.rows \subseteq [id : Ids, row : RowOf(Entry)]
           /\ x.names \subseteq STRING /\ x.found \subseteq Answers /\ x.unread \in BOOLEAN
BY DEF LocalVariables, Ids

\* y is x with an id in the variable for table t.
Bound(x, t, id, y) ==
    /\ y \in LocalVariables
    /\ y.service = IF t = Definition THEN id ELSE x.service
    /\ y.system = IF t = System THEN id ELSE x.system
    /\ y.entry = IF t = Entry THEN id ELSE x.entry
    /\ y.interfaces = IF t = Interface THEN Append(x.interfaces, id) ELSE x.interfaces
    /\ y.k = IF t \in {Interface, Connection} THEN x.k + 1 ELSE x.k
    /\ y.rows = x.rows /\ y.names = x.names /\ y.found = x.found /\ y.unread = x.unread

\* An id goes to one variable, and the others stay.
LEMMA BindFields ==
    ASSUME NEW x \in LocalVariables, NEW t \in Tables, NEW id \in Nat
    PROVE  Bound(x, t, id, Bind(x, t, id))
<1>1. Append(x.interfaces, id) \in Seq(Nat) /\ x.k + 1 \in Ids
  BY LocalFields DEF Ids
<1>2. CASE t = Definition
  <2>1. Bind(x, t, id) = [x EXCEPT !.service = id]
    BY <1>2, TableNames, Zenon DEF Bind
  <2>2. QED
    BY <1>2, <2>1, TableNames, Zenon DEF LocalVariables, Bound
<1>3. CASE t = System
  <2>1. Bind(x, t, id) = [x EXCEPT !.system = id]
    BY <1>3, TableNames, Zenon DEF Bind
  <2>2. QED
    BY <1>3, <2>1, TableNames, Zenon DEF LocalVariables, Bound
<1>4. CASE t = Interface
  <2>1. Bind(x, t, id) = [x EXCEPT !.interfaces = Append(x.interfaces, id), !.k = x.k + 1]
    BY <1>4, TableNames, Zenon DEF Bind
  <2>2. QED
    BY <1>1, <1>4, <2>1, TableNames, Zenon DEF LocalVariables, Bound
<1>5. CASE t = Entry
  <2>1. Bind(x, t, id) = [x EXCEPT !.entry = id]
    BY <1>5, TableNames, Zenon DEF Bind
  <2>2. QED
    BY <1>5, <2>1, TableNames, Zenon DEF LocalVariables, Bound
<1>6. CASE t = Connection
  <2>1. Bind(x, t, id) = [x EXCEPT !.k = x.k + 1]
    BY <1>6, TableNames, Zenon DEF Bind
  <2>2. QED
    BY <1>1, <1>6, <2>1, TableNames, Zenon DEF LocalVariables, Bound
<1>7. QED
  BY <1>2, <1>3, <1>4, <1>5, <1>6, Zenon DEF Tables

\* y is x, with the loop over the interfaces at its start after table Entry.
Restarted(x, t, y) ==
    /\ y \in LocalVariables
    /\ y.k = IF t = Entry THEN 1 ELSE x.k
    /\ y.service = x.service /\ y.system = x.system
    /\ y.entry = x.entry /\ y.interfaces = x.interfaces
    /\ y.rows = x.rows /\ y.names = x.names /\ y.found = x.found /\ y.unread = x.unread

\* The second loop over the interfaces starts again.
LEMMA RestartFields ==
    ASSUME NEW x \in LocalVariables, NEW t
    PROVE  Restarted(x, t, Restart(x, t))
<1>1. CASE t = Entry
  <2>1. Restart(x, t) = [x EXCEPT !.k = 1]
    BY <1>1, Zenon DEF Restart
  <2>2. 1 \in Ids
    BY DEF Ids
  <2>3. QED
    BY <1>1, <2>1, <2>2, Zenon DEF LocalVariables, Restarted
<1>2. CASE t # Entry
  BY <1>2, Zenon DEF Restart, Restarted
<1>3. QED
  BY <1>1, <1>2, Zenon

\* A registration looks for its value in table t.
LEMMA CheckServes ==
    ASSUME NEW r \in Requests, r.kind = "register", NEW t \in Tables,
           NEW x \in LocalVariables, LoopAt(r, t, x)
    PROVE  Serving(r, [step |-> "check", table |-> t], x, NoReply)
<1> DEFINE b == [step |-> "check", table |-> t]
<1>1. b = [step |-> b.step, table |-> b.table] /\ b.step = "check" /\ b.table = t
  BY Zenon
<1> HIDE DEF b
<1>2. StepOf(r, b)
  BY <1>1 DEF StepOf, Storing
<1>3. Looping(r, b, x)
  BY <1>1, Zenon DEF Looping
<1>4. QED
  BY <1>1, <1>2, <1>3 DEF Serving, b

\* A registration or a POST reads table t back.
LEMMA SelectServes ==
    ASSUME NEW r \in Requests, NEW t, NEW x \in LocalVariables,
           \/ r.kind = "register" /\ t \in Tables \ {Connection}
           \/ r.kind = "post_services" /\ t = Definition
           \/ r.kind = "post_systems" /\ t = System
           \/ r.kind \in {"put", "patch"} /\ t = r.table
    PROVE  Serving(r, [step |-> "select", table |-> t], x, NoReply)
<1> DEFINE b == [step |-> "select", table |-> t]
<1>1. b = [step |-> b.step, table |-> b.table] /\ b.step = "select" /\ b.table = t
  BY Zenon
<1> HIDE DEF b
<1>2. StepOf(r, b)
  BY <1>1 DEF StepOf, Storing
<1>3. Looping(r, b, x)
  BY <1>1 DEF Looping, Storing
<1>4. QED
  BY <1>1, <1>2, <1>3 DEF Serving, b

\* The statement after the one for table t of a registration.
LEMMA AfterCases ==
    ASSUME NEW w, NEW x, job[w].kind = "register"
    PROVE  /\ After(w, Definition, x) = [step |-> "check", table |-> System]
           /\ After(w, System, x) = [step |-> "check", table |-> Interface]
           /\ x.k <= Len(job[w].interfaces) =>
                 /\ After(w, Interface, x) = [step |-> "check", table |-> Interface]
                 /\ After(w, Connection, x) = [step |-> "check", table |-> Connection]
           /\ ~(x.k <= Len(job[w].interfaces)) =>
                 /\ After(w, Interface, x) = [step |-> "check", table |-> Entry]
                 /\ After(w, Connection, x) = [step |-> "select", table |-> Definition]
           /\ After(w, Entry, x) = [step |-> "check", table |-> Connection]
BY TableNames, Zenon DEF After

\* The local variables once table t has been seen to.
LEMMA StoredFields ==
    ASSUME NEW x \in LocalVariables, NEW t \in Tables, NEW id \in Nat
    PROVE  LET y == Restart(Bind(x, t, id), t)
           IN  /\ y \in LocalVariables
               /\ t \in {Definition, System} => y.k = x.k /\ y.interfaces = x.interfaces
               /\ t = Interface => y.k = x.k + 1 /\ y.interfaces = Append(x.interfaces, id)
               /\ t = Entry => y.k = 1 /\ y.interfaces = x.interfaces
               /\ t = Connection => y.k = x.k + 1 /\ y.interfaces = x.interfaces
<1>1. PICK b : b = Bind(x, t, id) /\ Bound(x, t, id, b)
  BY BindFields, Zenon
<1>2. b \in LocalVariables
  BY <1>1, Zenon DEF Bound
<1>3. PICK y : y = Restart(b, t) /\ Restarted(b, t, y)
  BY <1>2, RestartFields, Zenon
<1>4. /\ b.interfaces = IF t = Interface THEN Append(x.interfaces, id) ELSE x.interfaces
      /\ b.k = IF t \in {Interface, Connection} THEN x.k + 1 ELSE x.k
  BY <1>1, Zenon DEF Bound
<1>5. y \in LocalVariables /\ y.interfaces = b.interfaces /\ y.k = IF t = Entry THEN 1 ELSE b.k
  BY <1>3, Zenon DEF Restarted
<1>6. /\ t \in {Definition, System} => y.k = x.k /\ y.interfaces = x.interfaces
      /\ t = Interface => y.k = x.k + 1 /\ y.interfaces = Append(x.interfaces, id)
      /\ t = Entry => y.k = 1 /\ y.interfaces = x.interfaces
      /\ t = Connection => y.k = x.k + 1 /\ y.interfaces = x.interfaces
  BY <1>4, <1>5, TableNames
<1>7. y = Restart(Bind(x, t, id), t)
  BY <1>1, <1>3, Zenon
<1>8. QED
  BY <1>5, <1>6, <1>7, Zenon

\* What follows a value that has been found or stored.
LEMMA AfterServes ==
    ASSUME WorkersOK, NEW w \in Workers, at[w].step \in {"check", "recheck"}, NEW id \in Nat
    PROVE  LET t == at[w].table
               x == Restart(Bind(v[w], t, id), t)
           IN  Serving(job[w], After(w, t, x), x, NoReply)
<1> DEFINE r == job[w]
           t == at[w].table
           x == Restart(Bind(v[w], t, id), t)
<1>1. Serving(r, at[w], v[w], reply[w])
  BY Busy
<1>2. /\ r \in Requests /\ StepOf(r, at[w]) /\ Looping(r, at[w], v[w])
      /\ v[w] \in LocalVariables
  BY <1>1, Zenon DEF Serving
<1>3. /\ t \in Tables
      /\ \/ r.kind = "register"
         \/ r.kind = "post_services" /\ t = Definition
         \/ r.kind = "post_systems" /\ t = System
  BY <1>2 DEF StepOf, Storing, Tables
<1>4. /\ x \in LocalVariables
      /\ t \in {Definition, System} => x.k = v[w].k /\ x.interfaces = v[w].interfaces
      /\ t = Interface => x.k = v[w].k + 1 /\ x.interfaces = Append(v[w].interfaces, id)
      /\ t = Entry => x.k = 1 /\ x.interfaces = v[w].interfaces
      /\ t = Connection => x.k = v[w].k + 1 /\ x.interfaces = v[w].interfaces
  BY <1>2, <1>3, StoredFields, Zenon
<1> HIDE DEF x
<1>5. CASE r.kind # "register"
  <2>1. After(w, t, x) = [step |-> "select", table |-> t]
    BY <1>5, Zenon DEF After, PostAfter
  <2>2. Serving(r, [step |-> "select", table |-> t], x, NoReply)
    BY <1>2, <1>3, <1>4, <1>5, SelectServes, Zenon
  <2>3. QED
    BY <2>1, <2>2, Zenon DEF x
<1>6. CASE r.kind = "register"
  <2>1. LoopAt(r, t, v[w])
    BY <1>2, <1>6 DEF Looping, Storing
  <2>2. PICK n \in Nat : n = Len(r.interfaces) /\ n # 0
    <3>1. r.interfaces \in Seq(STRING) /\ r.interfaces # <<>>
      BY <1>2, <1>6, RequestFields, Zenon
    <3>2. \A s \in Seq(STRING) : s # <<>> => Len(s) \in Nat /\ Len(s) # 0
      OBVIOUS
    <3>3. QED
      BY <3>1, <3>2, Zenon
  <2>3. PICK m \in Nat, l \in Nat : m = Len(v[w].interfaces) /\ l = v[w].k
    <3>1. v[w].interfaces \in Seq(Nat) /\ v[w].k \in Nat
      BY <1>2, LocalFields, Zenon
    <3>2. \A s \in Seq(Nat) : Len(s) \in Nat
      OBVIOUS
    <3>3. QED
      BY <3>1, <3>2, Zenon
  <2>4. Len(Append(v[w].interfaces, id)) = m + 1
    <3>1. v[w].interfaces \in Seq(Nat)
      BY <1>2, LocalFields, Zenon
    <3>2. \A s \in Seq(Nat) : Len(Append(s, id)) = Len(s) + 1
      OBVIOUS
    <3>3. QED
      BY <2>3, <3>1, <3>2, Zenon
  <2>5. CASE t \in {Definition, System}
    <3>1. x.k = 1 /\ x.interfaces = <<>>
      BY <1>4, <2>1, <2>5, Zenon DEF LoopAt
    <3>2. CASE t = Definition
      <4>1. LoopAt(r, System, x)
        BY <3>1, TableNames, Zenon DEF LoopAt
      <4>2. Serving(r, [step |-> "check", table |-> System], x, NoReply)
        BY <1>2, <1>4, <1>6, <4>1, CheckServes, Zenon DEF Tables
      <4>3. QED
        BY <1>6, <3>2, <4>2, AfterCases, Zenon DEF x
    <3>3. CASE t = System
      <4>1. Len(x.interfaces) + 1 = x.k /\ x.k <= Len(r.interfaces)
        BY <2>2, <3>1
      <4>2. LoopAt(r, Interface, x)
        BY <4>1, TableNames, Zenon DEF LoopAt
      <4>3. Serving(r, [step |-> "check", table |-> Interface], x, NoReply)
        BY <1>2, <1>4, <1>6, <4>2, CheckServes, Zenon DEF Tables
      <4>4. QED
        BY <1>6, <3>3, <4>3, AfterCases, Zenon DEF x
    <3>4. QED
      BY <2>5, <3>2, <3>3, Zenon
  <2>6. CASE t = Interface
    <3>1. m + 1 = l /\ l <= n
      BY <2>1, <2>2, <2>3, <2>6, Zenon DEF LoopAt
    <3>2. x.k = l + 1 /\ Len(x.interfaces) = m + 1
      BY <1>4, <2>3, <2>4, <2>6, Zenon
    <3>3. CASE x.k <= Len(r.interfaces)
      <4>1. Len(x.interfaces) + 1 = x.k
        BY <3>1, <3>2
      <4>2. LoopAt(r, Interface, x)
        BY <3>3, <4>1, TableNames, Zenon DEF LoopAt
      <4>3. Serving(r, [step |-> "check", table |-> Interface], x, NoReply)
        BY <1>2, <1>4, <1>6, <4>2, CheckServes, Zenon DEF Tables
      <4>4. QED
        BY <1>6, <2>6, <3>3, <4>3, AfterCases, Zenon DEF x
    <3>4. CASE ~(x.k <= Len(r.interfaces))
      <4>1. Len(x.interfaces) = Len(r.interfaces)
        BY <2>2, <3>1, <3>2, <3>4
      <4>2. LoopAt(r, Entry, x)
        BY <4>1, TableNames, Zenon DEF LoopAt
      <4>3. Serving(r, [step |-> "check", table |-> Entry], x, NoReply)
        BY <1>2, <1>4, <1>6, <4>2, CheckServes, Zenon DEF Tables
      <4>4. QED
        BY <1>6, <2>6, <3>4, <4>3, AfterCases, Zenon DEF x
    <3>5. QED
      BY <3>3, <3>4, Zenon
  <2>7. CASE t = Entry
    <3>1. m = n
      BY <2>1, <2>2, <2>3, <2>7, Zenon DEF LoopAt
    <3>2. x.k = 1 /\ Len(x.interfaces) = m
      BY <1>4, <2>3, <2>7, Zenon
    <3>3. Len(x.interfaces) = Len(r.interfaces) /\ x.k <= Len(r.interfaces)
      BY <2>2, <3>1, <3>2
    <3>4. LoopAt(r, Connection, x)
      BY <3>3, TableNames, Zenon DEF LoopAt
    <3>5. Serving(r, [step |-> "check", table |-> Connection], x, NoReply)
      BY <1>2, <1>4, <1>6, <3>4, CheckServes, Zenon DEF Tables
    <3>6. QED
      BY <1>6, <2>7, <3>5, AfterCases, Zenon DEF x
  <2>8. CASE t = Connection
    <3>1. Len(x.interfaces) = Len(r.interfaces)
      BY <1>4, <2>1, <2>8, Zenon DEF LoopAt
    <3>2. CASE x.k <= Len(r.interfaces)
      <4>1. LoopAt(r, Connection, x)
        BY <3>1, <3>2, TableNames, Zenon DEF LoopAt
      <4>2. Serving(r, [step |-> "check", table |-> Connection], x, NoReply)
        BY <1>2, <1>4, <1>6, <4>1, CheckServes, Zenon DEF Tables
      <4>3. QED
        BY <1>6, <2>8, <3>2, <4>2, AfterCases, Zenon DEF x
    <3>3. CASE ~(x.k <= Len(r.interfaces))
      <4>1. Definition \in Tables \ {Connection}
        BY TableNames, Zenon DEF Tables
      <4>2. Serving(r, [step |-> "select", table |-> Definition], x, NoReply)
        BY <1>2, <1>4, <1>6, <4>1, SelectServes, Zenon
      <4>3. QED
        BY <1>6, <2>8, <3>3, <4>2, AfterCases, Zenon DEF x
    <3>4. QED
      BY <3>2, <3>3, Zenon
  <2>9. QED
    BY <1>3, <2>5, <2>6, <2>7, <2>8, Zenon DEF Tables
<1>7. QED
  BY <1>5, <1>6, Zenon

-----------------------------------------------------------------------------
(* Type correctness, action by action                                      *)

\* What a worker that is not idle knows of itself.
LEMMA ServingFacts ==
    ASSUME WorkersOK, NEW w \in Workers, at[w].step # "idle"
    PROVE  /\ job[w] \in Requests /\ StepOf(job[w], at[w]) /\ v[w] \in LocalVariables
           /\ Looping(job[w], at[w], v[w])
           /\ at[w].step \in {"connections", "provider"} => v[w].rows # {}
           /\ at[w].step # "reply" => reply[w] = NoReply
BY Busy, Zenon DEF Serving

\* The tables and the counters a statement does not touch.
LEMMA TablesKept ==
    ASSUME TablesOK, db' = db, nextId' = nextId
    PROVE  TablesOK'
BY Zenon DEF TablesOK

LEMMA CountsKept ==
    ASSUME CountsOK, cascade' = cascade, up' = up, served' = served, failures' = failures
    PROVE  CountsOK'
BY Zenon DEF CountsOK

\* Ids are naturals.
LEMMA IdsAreNat ==
    ASSUME TablesOK, NEW t \in Tables
    PROVE  DOMAIN db[t] \subseteq Nat \ {0} /\ DOMAIN db[t] \subseteq Ids
<1>1. nextId[t] \in Nat /\ DOMAIN db[t] \subseteq 1 .. (nextId[t] - 1)
  BY DEF TablesOK, Ids
<1>2. QED
  BY <1>1 DEF Ids

LEMMA StartTyped ==
    ASSUME RegistryTypes, NEW w \in Workers, Start(w)
    PROVE  RegistryTypes'
<1>1. PICK r \in Requests : /\ job' = [job EXCEPT ![w] = r]
                            /\ at' = [at EXCEPT ![w] = First(r)]
  BY Zenon DEF Start
<1>2. at[w] = Idle /\ v' = v /\ reply' = reply
  BY Zenon DEF Start
<1>3. v[w] = Locals /\ reply[w] = NoReply
  BY <1>2, IdleWorker, Zenon DEF RegistryTypes
<1>4. Moves(w)
  BY <1>1, <1>2, Zenon DEF Moves, RegistryTypes, WorkersOK
<1>5. job'[w] = r /\ at'[w] = First(r) /\ v'[w] = Locals /\ reply'[w] = NoReply
  BY <1>1, <1>2, <1>3, Zenon DEF RegistryTypes, WorkersOK
<1>6. WorkerOK(job'[w], at'[w], v'[w], reply'[w])
  BY <1>5, FirstServes, Zenon DEF WorkerOK
<1>7. WorkersOK'
  BY <1>4, <1>6, WorkerMoves, Zenon DEF RegistryTypes
<1>8. TablesOK'
  BY TablesKept, Zenon DEF Start, RegistryTypes
<1>9. CountsOK'
  <2>1. /\ served \in 0 .. MaxRequests /\ served < MaxRequests /\ served' = served + 1
        /\ cascade' = cascade /\ up' = up /\ failures' = failures
    BY Zenon DEF Start, RegistryTypes, CountsOK
  <2>2. served' \in 0 .. MaxRequests
    BY <2>1, BoundsAssumption
  <2>3. QED
    BY <2>1, <2>2, Zenon DEF CountsOK, RegistryTypes
<1>10. QED
  BY <1>7, <1>8, <1>9, Zenon DEF RegistryTypes

LEMMA RejectTyped ==
    ASSUME RegistryTypes, NEW w \in Workers, Reject(w)
    PROVE  RegistryTypes'
<1>1. at[w].step # "idle"
  BY DEF Reject
<1>2. Reply(w, "error", {}) /\ v' = v /\ job' = job
  BY Zenon DEF Reject
<1>3. WorkersOK'
  BY <1>1, <1>2, RepliesOnly, Zenon DEF RegistryTypes
<1>4. TablesOK' /\ CountsOK'
  BY TablesKept, CountsKept, Zenon DEF Reject, RegistryTypes
<1>5. QED
  BY <1>3, <1>4, Zenon DEF RegistryTypes

LEMMA DoneTyped ==
    ASSUME RegistryTypes, NEW w \in Workers, Done(w)
    PROVE  RegistryTypes'
<1>1. Moves(w)
  BY Zenon DEF Done, Moves, RegistryTypes, WorkersOK
<1>2. job'[w] = NoJob /\ at'[w] = Idle /\ v'[w] = Locals /\ reply'[w] = NoReply
  BY Zenon DEF Done, RegistryTypes, WorkersOK
<1>3. WorkerOK(job'[w], at'[w], v'[w], reply'[w])
  BY <1>2, Zenon DEF WorkerOK
<1>4. WorkersOK'
  BY <1>1, <1>3, WorkerMoves, Zenon DEF RegistryTypes
<1>5. TablesOK' /\ CountsOK'
  BY TablesKept, CountsKept, Zenon DEF Done, RegistryTypes
<1>6. QED
  BY <1>4, <1>5, Zenon DEF RegistryTypes

\* A value has been found.
LEMMA FoundTyped ==
    ASSUME WorkersOK, NEW w \in Workers, at[w].step \in {"check", "recheck"}, NEW id \in Nat,
           Found(w, id), job' = job, reply' = reply
    PROVE  WorkersOK'
<1> DEFINE t == at[w].table
           x == Restart(Bind(v[w], t, id), t)
           b == After(w, t, x)
<1>1. at' = [at EXCEPT ![w] = b] /\ v' = [v EXCEPT ![w] = x]
  BY Zenon DEF Found
<1>2. Serving(job[w], b, x, NoReply)
  BY AfterServes
<1>3. at[w].step # "idle" /\ at[w].step # "reply"
  OBVIOUS
<1>4. reply[w] = NoReply
  BY <1>3, ServingFacts, Zenon
<1> HIDE DEF b, x
<1>5. SetsLocals(w, x) /\ GoesTo(w, b)
  BY <1>1, Zenon DEF SetsLocals, GoesTo
<1>6. QED
  BY <1>2, <1>4, <1>5, GoesOn, Zenon

\* From one statement of checkAndInsertValue to another for the same table.
LEMMA StoringServes ==
    ASSUME NEW r, NEW a, NEW x, NEW y, NEW s \in Storing,
           Serving(r, a, x, y), a.step \in Storing
    PROVE  Serving(r, [step |-> s, table |-> a.table], x, y)
<1> DEFINE b == [step |-> s, table |-> a.table]
<1>1. b = [step |-> b.step, table |-> b.table] /\ b.step = s /\ b.table = a.table
  BY Zenon
<1> HIDE DEF b
<1>2. /\ r \in Requests /\ StepOf(r, a) /\ x \in LocalVariables /\ Looping(r, a, x)
      /\ y = NoReply
  BY DEF Serving, Storing
<1>3. StepOf(r, b)
  BY <1>1, <1>2 DEF StepOf, Storing
<1>4. Looping(r, b, x)
  BY <1>1, <1>2, Zenon DEF Looping
<1>5. b.step \notin {"connections", "provider"}
  BY <1>1 DEF Storing
<1>6. QED
  BY <1>2, <1>3, <1>4, <1>5, Zenon DEF Serving, b

\* The worker goes from one statement of checkAndInsertValue to another.
LEMMA StoringGoesOn ==
    ASSUME WorkersOK, NEW w \in Workers, at[w].step \in Storing, NEW s \in Storing,
           Goto(w, s, at[w].table), v' = v, job' = job, reply' = reply
    PROVE  WorkersOK'
<1> DEFINE b == [step |-> s, table |-> at[w].table]
<1>1. at[w].step # "idle"
  BY DEF Storing
<1>2. Serving(job[w], b, v[w], reply[w])
  BY <1>1, Busy, StoringServes, Zenon
<1>3. GoesTo(w, b) /\ SetsLocals(w, v[w])
  BY Zenon DEF Goto, GoesTo, SetsLocals
<1> HIDE DEF b
<1>4. QED
  BY <1>2, <1>3, GoesOn, Zenon

LEMMA CheckTyped ==
    ASSUME RegistryTypes, NEW w \in Workers, Check(w)
    PROVE  RegistryTypes'
<1>1. at[w].step = "check" /\ job' = job /\ reply' = reply
  BY Zenon DEF Check
<1>2. at[w].table \in Tables
  <2>1. at[w].step # "idle"
    BY <1>1
  <2>2. StepOf(job[w], at[w])
    BY <2>1, ServingFacts, Zenon DEF RegistryTypes
  <2>3. QED
    BY <1>1, <2>2 DEF StepOf, Tables, Storing
<1>3. WorkersOK'
  <2>1. CASE \E id \in Matching(w, at[w].table) : Found(w, id)
    <3>1. PICK id \in Matching(w, at[w].table) : Found(w, id)
      BY <2>1, Zenon
    <3>2. id \in DOMAIN db[at[w].table]
      BY Zenon DEF Matching
    <3>3. id \in Nat
      BY <1>2, <3>2, IdsAreNat, Zenon DEF RegistryTypes
    <3>4. at[w].step \in {"check", "recheck"}
      BY <1>1, Zenon
    <3>5. QED
      BY <1>1, <3>1, <3>3, <3>4, FoundTyped, Zenon DEF RegistryTypes
  <2>2. CASE Goto(w, "insert", at[w].table) /\ UNCHANGED v
    BY <1>1, <2>2, StoringGoesOn, Zenon DEF RegistryTypes, Storing
  <2>3. QED
    BY <2>1, <2>2, Zenon DEF Check
<1>4. TablesOK' /\ CountsOK'
  BY TablesKept, CountsKept, Zenon DEF Check, RegistryTypes
<1>5. QED
  BY <1>3, <1>4, Zenon DEF RegistryTypes

LEMMA RecheckTyped ==
    ASSUME RegistryTypes, NEW w \in Workers, Recheck(w)
    PROVE  RegistryTypes'
<1>1. at[w].step = "recheck" /\ job' = job /\ reply' = reply
  BY Zenon DEF Recheck
<1>2. at[w].table \in Tables
  <2>1. at[w].step # "idle"
    BY <1>1
  <2>2. StepOf(job[w], at[w])
    BY <2>1, ServingFacts, Zenon DEF RegistryTypes
  <2>3. QED
    BY <1>1, <2>2 DEF StepOf, Tables, Storing
<1>3. WorkersOK'
  <2>1. PICK id : /\ id = NoId \/ id \in Matching(w, at[w].table)
                  /\ Found(w, id)
    BY Zenon DEF Recheck
  <2>2. id = NoId \/ id \in DOMAIN db[at[w].table]
    BY <2>1, Zenon DEF Matching
  <2>3. NoId \in Nat
    BY DEF NoId
  <2>4. id \in Nat
    BY <1>2, <2>2, <2>3, IdsAreNat, Zenon DEF RegistryTypes
  <2>5. at[w].step \in {"check", "recheck"}
    BY <1>1, Zenon
  <2>6. QED
    BY <1>1, <2>1, <2>4, <2>5, FoundTyped, Zenon DEF RegistryTypes
<1>4. TablesOK' /\ CountsOK'
  BY TablesKept, CountsKept, Zenon DEF Recheck, RegistryTypes
<1>5. QED
  BY <1>3, <1>4, Zenon DEF RegistryTypes

\* A row that is inserted has the type of its table.
LEMMA NewRowTyped ==
    ASSUME WorkersOK, NEW w \in Workers, at[w].step = "insert",
           ~InsertFails(at[w].table, NewRow(w, at[w].table))
    PROVE  at[w].table \in Tables /\ NewRow(w, at[w].table) \in RowOf(at[w].table)
<1> DEFINE r == job[w]
           t == at[w].table
<1>1. at[w].step # "idle"
  OBVIOUS
<1>2. r \in Requests /\ StepOf(r, at[w]) /\ v[w] \in LocalVariables /\ Looping(r, at[w], v[w])
  BY <1>1, ServingFacts, Zenon
<1>3. /\ t \in Tables
      /\ \/ r.kind = "register"
         \/ r.kind = "post_services" /\ t = Definition
         \/ r.kind = "post_systems" /\ t = System
  BY <1>2 DEF StepOf, Storing, Tables
<1>4. r.kind = "register" => LoopAt(r, t, v[w])
  BY <1>2 DEF Looping, Storing
<1>5. /\ v[w].service \in Nat /\ v[w].system \in Nat /\ v[w].entry \in Nat
      /\ v[w].interfaces \in Seq(Nat) /\ v[w].k \in Nat \ {0}
  BY <1>2, LocalFields, Zenon
<1>6. CASE t = Definition
  <2>1. r.service \in STRING
    BY <1>2, <1>3, <1>6, RequestFields, TableNames
  <2>2. NewRow(w, t) = [name |-> r.service]
    BY <1>6, TableNames, Zenon DEF NewRow
  <2>3. QED
    BY <1>3, <1>6, <2>1, <2>2, RowTypes, Zenon
<1>7. CASE t = System
  <2>1. r.system \in SystemRow
    BY <1>2, <1>3, <1>7, RequestFields, TableNames
  <2>2. NewRow(w, t) = r.system
    BY <1>7, TableNames, Zenon DEF NewRow
  <2>3. QED
    BY <1>3, <1>7, <2>1, <2>2, RowTypes, Zenon
<1>8. CASE t = Interface
  <2>1. r.kind = "register"
    BY <1>3, <1>8, TableNames, Zenon
  <2>2. r.interfaces \in Seq(STRING) /\ v[w].k <= Len(r.interfaces)
    BY <1>2, <1>4, <1>8, <2>1, RequestFields, Zenon DEF LoopAt
  <2>3. r.interfaces[v[w].k] \in STRING
    <3>1. \A s \in Seq(STRING), k \in Nat \ {0} : k <= Len(s) => s[k] \in STRING
      OBVIOUS
    <3>2. QED
      BY <1>5, <2>2, <3>1, Zenon
  <2>4. NewRow(w, t) = [name |-> r.interfaces[v[w].k]]
    BY <1>8, TableNames, Zenon DEF NewRow
  <2>5. QED
    BY <1>3, <1>8, <2>3, <2>4, RowTypes, Zenon
<1>9. CASE t = Entry
  <2>1. r.kind = "register"
    BY <1>3, <1>9, TableNames, Zenon
  <2>2. r.uri \in Uris
    BY <1>2, <2>1, RequestFields, Zenon
  <2>3. NewRow(w, t) = [service |-> v[w].service, system |-> v[w].system, uri |-> r.uri]
    BY <1>9, TableNames, Zenon DEF NewRow
  <2>4. References(t, NewRow(w, t)) = {<<Definition, v[w].service>>, <<System, v[w].system>>}
    BY <1>9, <2>3, TableNames DEF References
  <2>5. v[w].service # NoId /\ v[w].system # NoId
    BY <2>4 DEF InsertFails
  <2>6. v[w].service \in Ids /\ v[w].system \in Ids
    BY <1>5, <2>5 DEF Ids, NoId
  <2>7. QED
    BY <1>3, <1>9, <2>2, <2>3, <2>6, RowTypes, Zenon
<1>10. CASE t = Connection
  <2>1. r.kind = "register"
    BY <1>3, <1>10, TableNames, Zenon
  <2>2. v[w].k <= Len(v[w].interfaces)
    BY <1>4, <1>10, <2>1, Zenon DEF LoopAt
  <2>3. v[w].interfaces[v[w].k] \in Nat
    BY <1>5, <2>2
  <2>4. NewRow(w, t) = [entry |-> v[w].entry, interface |-> v[w].interfaces[v[w].k]]
    BY <1>10, TableNames, Zenon DEF NewRow
  <2>5. References(t, NewRow(w, t)) =
           {<<Entry, v[w].entry>>, <<Interface, v[w].interfaces[v[w].k]>>}
    BY <1>10, <2>4, TableNames DEF References
  <2>6. v[w].entry # NoId /\ v[w].interfaces[v[w].k] # NoId
    BY <2>5 DEF InsertFails
  <2>7. v[w].entry \in Ids /\ v[w].interfaces[v[w].k] \in Ids
    BY <1>5, <2>3, <2>6 DEF Ids, NoId
  <2>8. QED
    BY <1>3, <1>10, <2>4, <2>7, RowTypes, Zenon
<1>11. QED
  BY <1>3, <1>6, <1>7, <1>8, <1>9, <1>10, Zenon DEF Tables

LEMMA InsertStepTyped ==
    ASSUME RegistryTypes, NEW w \in Workers, Insert(w)
    PROVE  RegistryTypes'
<1>1. /\ at[w].step = "insert" /\ job' = job /\ reply' = reply /\ v' = v
      /\ ~InsertFails(at[w].table, NewRow(w, at[w].table))
      /\ InsertRow(at[w].table, NewRow(w, at[w].table))
      /\ Goto(w, "recheck", at[w].table)
  BY Zenon DEF Insert
<1>2. WorkersOK'
  BY <1>1, StoringGoesOn, Zenon DEF RegistryTypes, Storing
<1>3. TablesOK'
  BY <1>1, NewRowTyped, InsertTyped, Zenon DEF RegistryTypes
<1>4. CountsOK'
  BY CountsKept, Zenon DEF Insert, RegistryTypes
<1>5. QED
  BY <1>2, <1>3, <1>4, Zenon DEF RegistryTypes

LEMMA SelectTyped ==
    ASSUME RegistryTypes, NEW w \in Workers, Select(w)
    PROVE  RegistryTypes'
<1> DEFINE t == at[w].table
<1>1. at[w].step = "select" /\ job' = job /\ v' = v
  BY Zenon DEF Select
<1>2. at[w].step # "idle" /\ at[w].step # "reply"
  BY <1>1
<1>3. /\ job[w] \in Requests /\ StepOf(job[w], at[w]) /\ v[w] \in LocalVariables
      /\ reply[w] = NoReply
  BY <1>2, ServingFacts, Zenon DEF RegistryTypes
<1>4. \/ Reply(w, "error", {})
      \/ Reply(w, "ok", {})
      \/ /\ job[w].kind = "register" /\ t # Entry
         /\ Goto(w, "select", SelectAfter(t)) /\ reply' = reply
  BY DEF Select
<1>5. ASSUME Reply(w, "error", {}) \/ Reply(w, "ok", {}) PROVE WorkersOK'
  BY <1>1, <1>2, <1>5, RepliesOnly, Zenon DEF RegistryTypes
<1>6. ASSUME job[w].kind = "register", t # Entry,
             Goto(w, "select", SelectAfter(t)), reply' = reply
      PROVE  WorkersOK'
  <2>1. t \in {Definition, System, Interface}
    BY <1>1, <1>3, <1>6 DEF StepOf, Storing, Tables
  <2>2. SelectAfter(t) \in Tables \ {Connection}
    BY <2>1, TableNames DEF SelectAfter, Tables
  <2>3. PICK b : b = [step |-> "select", table |-> SelectAfter(t)]
    BY Zenon
  <2>4. Serving(job[w], b, v[w], reply[w])
    BY <1>3, <1>6, <2>2, <2>3, SelectServes, Zenon
  <2>5. GoesTo(w, b) /\ SetsLocals(w, v[w])
    BY <1>1, <1>6, <2>3, Zenon DEF Goto, GoesTo, SetsLocals
  <2>6. QED
    BY <1>1, <1>6, <2>4, <2>5, GoesOn, Zenon DEF RegistryTypes
<1>7. WorkersOK'
  BY <1>4, <1>5, <1>6, Zenon
<1>8. TablesOK' /\ CountsOK'
  BY TablesKept, CountsKept, Zenon DEF Select, RegistryTypes
<1>9. QED
  BY <1>7, <1>8, Zenon DEF RegistryTypes

\* What follows a row that an unregistration or a query has found.
LEMMA FindServes ==
    ASSUME NEW w, job[w] \in Requests, StepOf(job[w], at[w]), at[w].step = "find",
           NEW x \in LocalVariables
    PROVE  Serving(job[w], FindAfter(w, at[w].table), x, NoReply)
<1> DEFINE r == job[w]
           t == at[w].table
           b == FindAfter(w, t)
<1>1. \/ r.kind = "unregister" /\ t \in {Definition, System, Entry}
      \/ r.kind = "query" /\ t = Definition
  BY DEF StepOf, Storing
<1>2. /\ b = [step |-> b.step, table |-> b.table]
      /\ \/ r.kind = "query" /\ b.step = "entries" /\ b.table = Entry
         \/ r.kind = "unregister" /\ b.step = "find" /\ b.table \in {System, Entry}
         \/ r.kind = "unregister" /\ b.step = "delete" /\ b.table = Connection
  <2>1. CASE r.kind = "query"
    BY <2>1 DEF FindAfter
  <2>2. CASE r.kind = "unregister" /\ t = Definition
    BY <2>2 DEF FindAfter
  <2>3. CASE r.kind = "unregister" /\ t = System
    BY <2>3, TableNames DEF FindAfter
  <2>4. CASE r.kind = "unregister" /\ t = Entry
    BY <2>4, TableNames DEF FindAfter
  <2>5. QED
    BY <1>1, <2>1, <2>2, <2>3, <2>4, Zenon
<1> HIDE DEF b
<1>3. StepOf(r, b)
  BY <1>2 DEF StepOf
<1>4. Looping(r, b, x)
  BY <1>2 DEF Looping, Storing
<1>5. b.step \notin {"connections", "provider"}
  BY <1>2
<1>6. QED
  BY <1>3, <1>4, <1>5, Zenon DEF Serving, b

LEMMA FindTyped ==
    ASSUME RegistryTypes, NEW w \in Workers, Find(w)
    PROVE  RegistryTypes'
<1> DEFINE t == at[w].table
<1>1. at[w].step = "find" /\ job' = job
  BY Zenon DEF Find
<1>2. at[w].step # "idle" /\ at[w].step # "reply"
  BY <1>1
<1>3. /\ job[w] \in Requests /\ StepOf(job[w], at[w]) /\ v[w] \in LocalVariables
      /\ reply[w] = NoReply
  BY <1>2, ServingFacts, Zenon DEF RegistryTypes
<1>4. t \in Tables
  BY <1>1, <1>3 DEF StepOf, Tables, Storing
<1>5. \/ \E id \in Sought(w, t) : /\ v' = [v EXCEPT ![w] = Bind(v[w], t, id)]
                                  /\ at' = [at EXCEPT ![w] = FindAfter(w, t)]
                                  /\ reply' = reply
      \/ Reply(w, "error", {}) /\ v' = v
  BY Zenon DEF Find
<1>6. ASSUME \E id \in Sought(w, t) : /\ v' = [v EXCEPT ![w] = Bind(v[w], t, id)]
                                      /\ at' = [at EXCEPT ![w] = FindAfter(w, t)]
                                      /\ reply' = reply
      PROVE  WorkersOK'
  <2>1. PICK id \in Sought(w, t) : /\ v' = [v EXCEPT ![w] = Bind(v[w], t, id)]
                                   /\ at' = [at EXCEPT ![w] = FindAfter(w, t)]
                                   /\ reply' = reply
    BY <1>6, Zenon
  <2>2. id \in DOMAIN db[t]
    BY Zenon DEF Sought
  <2>3. id \in Nat
    BY <1>4, <2>2, IdsAreNat, Zenon DEF RegistryTypes
  <2>4. PICK x : x = Bind(v[w], t, id) /\ Bound(v[w], t, id, x)
    BY <1>3, <1>4, <2>3, BindFields, Zenon
  <2>5. x \in LocalVariables /\ SetsLocals(w, x)
    BY <2>1, <2>4, Zenon DEF Bound, SetsLocals
  <2>6. PICK b : b = FindAfter(w, t)
    BY Zenon
  <2>7. Serving(job[w], b, x, reply[w]) /\ GoesTo(w, b)
    BY <1>1, <1>3, <2>1, <2>5, <2>6, FindServes, Zenon DEF GoesTo
  <2>8. QED
    BY <1>1, <2>1, <2>5, <2>7, GoesOn, Zenon DEF RegistryTypes
<1>7. WorkersOK'
  BY <1>1, <1>2, <1>5, <1>6, RepliesOnly, Zenon DEF RegistryTypes
<1>8. TablesOK' /\ CountsOK'
  BY TablesKept, CountsKept, Zenon DEF Find, RegistryTypes
<1>9. QED
  BY <1>7, <1>8, Zenon DEF RegistryTypes

LEMMA DeleteStepTyped ==
    ASSUME RegistryTypes, NEW w \in Workers, Delete(w)
    PROVE  RegistryTypes'
<1> DEFINE t == at[w].table
<1>1. at[w].step = "delete" /\ job' = job /\ v' = v /\ nextId' = nextId
  BY Zenon DEF Delete
<1>2. at[w].step # "idle" /\ at[w].step # "reply"
  BY <1>1
<1>3. /\ job[w] \in Requests /\ StepOf(job[w], at[w]) /\ v[w] \in LocalVariables
      /\ reply[w] = NoReply
  BY <1>2, ServingFacts, Zenon DEF RegistryTypes
<1>4. /\ DeleteRows(t, Doomed(w, t))
      /\ \/ t = Connection /\ Goto(w, "delete", Entry) /\ reply' = reply
         \/ Reply(w, "ok", {})
  BY Zenon DEF Delete
<1>5. ASSUME t = Connection, Goto(w, "delete", Entry), reply' = reply
      PROVE  WorkersOK'
  <2>1. job[w].kind = "unregister"
    <3>1. job[w].kind = "delete" => job[w].table \in {Definition, System, Entry}
      BY <1>3, RequestFields, Zenon
    <3>2. QED
      BY <1>1, <1>3, <1>5, <3>1, TableNames DEF StepOf, Storing
  <2>2. PICK b : b = [step |-> "delete", table |-> Entry]
    BY Zenon
  <2>3. b = [step |-> b.step, table |-> b.table] /\ b.step = "delete" /\ b.table = Entry
    BY <2>2, Zenon
  <2>4. StepOf(job[w], b)
    BY <2>1, <2>3, Zenon DEF StepOf
  <2>5. Looping(job[w], b, v[w])
    BY <2>3 DEF Looping, Storing
  <2>6. b.step \notin {"connections", "provider"}
    BY <2>3
  <2>7. Serving(job[w], b, v[w], reply[w])
    BY <1>3, <2>4, <2>5, <2>6, Zenon DEF Serving
  <2>8. GoesTo(w, b) /\ SetsLocals(w, v[w])
    BY <1>1, <1>5, <2>2, Zenon DEF Goto, GoesTo, SetsLocals
  <2>9. QED
    BY <1>1, <1>5, <2>7, <2>8, GoesOn, Zenon DEF RegistryTypes
<1>6. WorkersOK'
  BY <1>1, <1>2, <1>4, <1>5, RepliesOnly, Zenon DEF RegistryTypes
<1>7. TablesOK'
  BY <1>1, <1>4, DeleteTyped, Zenon DEF RegistryTypes
<1>8. CountsOK'
  BY CountsKept, Zenon DEF Delete, RegistryTypes
<1>9. QED
  BY <1>6, <1>7, <1>8, Zenon DEF RegistryTypes

\* An updated row has the type of its table.
LEMMA UpdatedRowTyped ==
    ASSUME TablesOK, NEW w, job[w] \in Requests, job[w].kind \in {"put", "patch"},
           NEW t, t = job[w].table, job[w].id \in DOMAIN db[t]
    PROVE  UpdatedRow(w, t) \in RowOf(t)
<1> DEFINE new == job[w].row
           old == db[t][job[w].id]
<1>1. \/ t = Definition /\ new \in [name : STRING]
      \/ t = System /\ new \in SystemRow
  BY RequestFields, Zenon
<1>2. t \in Tables
  BY <1>1, Zenon DEF Tables
<1>3. old \in RowOf(t)
  BY <1>2, Zenon DEF TablesOK
<1>4. CASE job[w].kind = "put"
  <2>1. UpdatedRow(w, t) = new
    BY <1>4, Zenon DEF UpdatedRow
  <2>2. QED
    BY <1>1, <2>1, RowTypes, Zenon
<1>5. CASE job[w].kind # "put" /\ t = Definition
  <2>1. UpdatedRow(w, t) = [old EXCEPT !.name = Given(new.name, old.name)]
    BY <1>5, Zenon DEF UpdatedRow
  <2>2. new \in [name : STRING] /\ old \in [name : STRING]
    BY <1>1, <1>3, <1>5, RowTypes, TableNames, Zenon
  <2>3. Given(new.name, old.name) \in STRING
    BY <2>2, Zenon DEF Given
  <2>4. [old EXCEPT !.name = Given(new.name, old.name)] \in [name : STRING]
    BY <2>2, <2>3
  <2>5. QED
    BY <1>5, <2>1, <2>4, RowTypes, Zenon
<1>6. CASE job[w].kind # "put" /\ t = System
  <2>1. \/ UpdatedRow(w, t) = [old EXCEPT !.name = Given(new.name, old.name)]
        \/ UpdatedRow(w, t) = [old EXCEPT !.addr = Given(new.addr, old.addr)]
    BY <1>6, TableNames, Zenon DEF UpdatedRow
  <2>2. new \in SystemRow /\ old \in SystemRow
    BY <1>1, <1>3, <1>6, RowTypes, TableNames, Zenon
  <2>3. /\ new.name \in STRING /\ old.name \in STRING
        /\ new.addr \in STRING /\ old.addr \in STRING
    BY <2>2, Zenon DEF SystemRow
  <2>4. Given(new.name, old.name) \in STRING /\ Given(new.addr, old.addr) \in STRING
    BY <2>3, Zenon DEF Given
  <2>5. /\ [old EXCEPT !.name = Given(new.name, old.name)] \in SystemRow
        /\ [old EXCEPT !.addr = Given(new.addr, old.addr)] \in SystemRow
    BY <2>2, <2>4, Zenon DEF SystemRow
  <2>6. QED
    BY <1>6, <2>1, <2>5, RowTypes, Zenon
<1>7. QED
  BY <1>1, <1>4, <1>5, <1>6, Zenon

\* The counter k of a worker's local variables goes up.
LEMMA NextColumn ==
    ASSUME NEW x \in LocalVariables
    PROVE  [x EXCEPT !.k = x.k + 1] \in LocalVariables
<1>1. x.k + 1 \in Ids
  BY LocalFields DEF Ids
<1>2. QED
  BY <1>1, Zenon DEF LocalVariables

LEMMA UpdateStepTyped ==
    ASSUME RegistryTypes, NEW w \in Workers, Update(w)
    PROVE  RegistryTypes'
<1> DEFINE t == at[w].table
<1>1. at[w].step = "update" /\ job' = job /\ reply' = reply /\ nextId' = nextId
  BY Zenon DEF Update
<1>2. at[w].step # "idle" /\ at[w].step # "reply"
  BY <1>1
<1>3. /\ job[w] \in Requests /\ StepOf(job[w], at[w]) /\ v[w] \in LocalVariables
      /\ reply[w] = NoReply
  BY <1>2, ServingFacts, Zenon DEF RegistryTypes
<1>4. job[w].kind \in {"put", "patch"} /\ t = job[w].table
  BY <1>1, <1>3 DEF StepOf, Storing
<1>5. PICK x : x = [v[w] EXCEPT !.k = v[w].k + 1]
  BY Zenon
<1>6. x \in LocalVariables
  BY <1>3, <1>5, NextColumn, Zenon
<1>7. SetsLocals(w, x)
  BY <1>5, Zenon DEF Update, SetsLocals
<1>8. Goto(w, "select", t) \/ at' = at
  BY Zenon DEF Update
<1>9. ASSUME Goto(w, "select", t) PROVE WorkersOK'
  <2>1. PICK b : b = [step |-> "select", table |-> t]
    BY Zenon
  <2>2. Serving(job[w], b, x, reply[w])
    BY <1>3, <1>4, <1>6, <2>1, SelectServes, Zenon
  <2>3. GoesTo(w, b)
    BY <1>9, <2>1, Zenon DEF Goto, GoesTo
  <2>4. QED
    BY <1>1, <1>7, <2>2, <2>3, GoesOn, Zenon DEF RegistryTypes
<1>10. ASSUME at' = at PROVE WorkersOK'
  <2>1. Looping(job[w], at[w], x)
    BY <1>4 DEF Looping
  <2>2. at[w].step \notin {"connections", "provider"}
    BY <1>1
  <2>3. Serving(job[w], at[w], x, reply[w])
    BY <1>3, <1>6, <2>1, <2>2, Zenon DEF Serving
  <2>4. v'[w] = x /\ DOMAIN v' = Workers /\ \A u \in Workers \ {w} : v'[u] = v[u]
    BY <1>5, Zenon DEF Update, RegistryTypes, WorkersOK
  <2>5. Moves(w)
    BY <1>1, <1>10, <2>4, Zenon DEF Moves, RegistryTypes, WorkersOK
  <2>6. WorkerOK(job'[w], at'[w], v'[w], reply'[w])
    BY <1>1, <1>10, <2>3, <2>4, Zenon DEF WorkerOK
  <2>7. QED
    BY <2>5, <2>6, WorkerMoves, Zenon DEF RegistryTypes
<1>11. WorkersOK'
  BY <1>8, <1>9, <1>10, Zenon
<1>12. TablesOK'
  <2>1. t \in Tables
    BY <1>3, <1>4, RequestFields DEF Tables
  <2>2. job[w].id \in DOMAIN db[t] => UpdatedRow(w, t) \in RowOf(t)
    BY <1>3, <1>4, UpdatedRowTyped, Zenon DEF RegistryTypes
  <2>3. db' = IF job[w].id \in DOMAIN db[t]
              THEN [db EXCEPT ![t][job[w].id] = UpdatedRow(w, t)] ELSE db
    BY Zenon DEF Update
  <2>4. QED
    BY <1>1, <2>1, <2>2, <2>3, UpdateTyped, Zenon DEF RegistryTypes
<1>13. CountsOK'
  BY CountsKept, Zenon DEF Update, RegistryTypes
<1>14. QED
  BY <1>11, <1>12, <1>13, Zenon DEF RegistryTypes

\* The loop of a query is at one of the rows that are left.
LEMMA CurrentRow ==
    ASSUME NEW w, v[w].rows # {}
    PROVE  Current(w) \in v[w].rows
BY Zenon DEF Current

\* A query goes on to the connections of the next entry.
LEMMA ConnectionsServe ==
    ASSUME NEW r \in Requests, r.kind = "query", NEW x \in LocalVariables, x.rows # {},
           NEW b \in {[step |-> "connections", table |-> Connection],
                      [step |-> "provider", table |-> System]}
    PROVE  Serving(r, b, x, NoReply)
<1>1. /\ b = [step |-> b.step, table |-> b.table]
      /\ \/ b.step = "connections" /\ b.table = Connection
         \/ b.step = "provider" /\ b.table = System
  OBVIOUS
<1>2. StepOf(r, b)
  BY <1>1, Zenon DEF StepOf
<1>3. Looping(r, b, x)
  BY DEF Looping
<1>4. b.step # "reply"
  BY <1>1
<1>5. QED
  BY <1>2, <1>3, <1>4, Zenon DEF Serving

\* The query's worker goes on to b, one of the two statements of its loop.
LEMMA QueryGoesOn ==
    ASSUME WorkersOK, NEW w \in Workers, at[w].step \in {"entries", "connections", "provider"},
           NEW x \in LocalVariables, x.rows # {}, v' = [v EXCEPT ![w] = x],
           NEW b \in {[step |-> "connections", table |-> Connection],
                      [step |-> "provider", table |-> System]},
           at' = [at EXCEPT ![w] = b], job' = job, reply' = reply
    PROVE  WorkersOK'
<1>1. at[w].step # "idle" /\ at[w].step # "reply"
  OBVIOUS
<1>2. job[w] \in Requests /\ StepOf(job[w], at[w]) /\ reply[w] = NoReply
  BY <1>1, ServingFacts, Zenon
<1>3. job[w].kind = "query"
  BY <1>2 DEF StepOf, Storing
<1>4. Serving(job[w], b, x, reply[w])
  BY <1>2, <1>3, ConnectionsServe, Zenon
<1>5. GoesTo(w, b) /\ SetsLocals(w, x)
  BY Zenon DEF GoesTo, SetsLocals
<1>6. QED
  BY <1>4, <1>5, GoesOn, Zenon

LEMMA EntriesTyped ==
    ASSUME RegistryTypes, NEW w \in Workers, Entries(w)
    PROVE  RegistryTypes'
<1> DEFINE ids == {i \in DOMAIN db[Entry] : db[Entry][i].service = v[w].service}
           rows == {[id |-> i, row |-> db[Entry][i]] : i \in ids}
<1>1. at[w].step = "entries" /\ job' = job
  BY Zenon DEF Entries
<1>2. at[w].step # "idle"
  BY <1>1
<1>3. v[w] \in LocalVariables
  BY <1>2, ServingFacts, Zenon DEF RegistryTypes
<1>4. \/ Reply(w, "ok", {}) /\ v' = v
      \/ /\ ids # {} /\ v' = [v EXCEPT ![w].rows = rows]
         /\ Goto(w, "connections", Connection) /\ reply' = reply
  BY Zenon DEF Entries
<1>5. ASSUME ids # {}, v' = [v EXCEPT ![w].rows = rows],
             Goto(w, "connections", Connection), reply' = reply
      PROVE  WorkersOK'
  <2>1. rows \subseteq [id : Ids, row : RowOf(Entry)]
    <3>1. Entry \in Tables
      BY Zenon DEF Tables
    <3>2. DOMAIN db[Entry] \subseteq Ids
      BY <3>1, IdsAreNat, Zenon DEF RegistryTypes
    <3>3. \A i \in DOMAIN db[Entry] : db[Entry][i] \in RowOf(Entry)
      BY <3>1, Zenon DEF RegistryTypes, TablesOK
    <3>4. \A i \in ids : [id |-> i, row |-> db[Entry][i]] \in [id : Ids, row : RowOf(Entry)]
      BY <3>2, <3>3
    <3>5. QED
      BY <3>4, Zenon
  <2>2. rows # {}
    BY <1>5, Zenon
  <2>3. PICK x : x = [v[w] EXCEPT !.rows = rows]
    BY Zenon
  <2>4. v' = [v EXCEPT ![w] = x]
    BY <1>5, <2>3, Zenon
  <2> HIDE DEF rows
  <2>5. x \in LocalVariables /\ x.rows = rows
    BY <1>3, <2>1, <2>3, Zenon DEF LocalVariables
  <2>6. PICK b \in {[step |-> "connections", table |-> Connection],
                    [step |-> "provider", table |-> System]} : at' = [at EXCEPT ![w] = b]
    BY <1>5, Zenon DEF Goto
  <2>7. at[w].step \in {"entries", "connections", "provider"}
    BY <1>1, Zenon
  <2>8. x.rows # {}
    BY <2>2, <2>5, Zenon
  <2>9. QED
    BY <1>1, <1>5, <2>4, <2>5, <2>6, <2>7, <2>8, QueryGoesOn, Zenon DEF RegistryTypes
<1>6. WorkersOK'
  BY <1>1, <1>2, <1>4, <1>5, RepliesOnly, Zenon DEF RegistryTypes
<1>7. TablesOK' /\ CountsOK'
  BY TablesKept, CountsKept, Zenon DEF Entries, RegistryTypes
<1>8. QED
  BY <1>6, <1>7, Zenon DEF RegistryTypes

LEMMA ConnectionsTyped ==
    ASSUME RegistryTypes, NEW w \in Workers, Connections(w)
    PROVE  RegistryTypes'
<1> DEFINE ids == InterfacesOf(Current(w).id)
<1>1. at[w].step = "connections" /\ job' = job
  BY Zenon DEF Connections
<1>2. at[w].step # "idle"
  BY <1>1
<1>3. v[w] \in LocalVariables /\ v[w].rows # {}
  BY <1>1, <1>2, ServingFacts, Zenon DEF RegistryTypes
<1>4. \/ Reply(w, "ok", {}) /\ v' = v
      \/ /\ ids \subseteq DOMAIN db[Interface] /\ v' = [v EXCEPT ![w].names = NamesOf(ids)]
         /\ Goto(w, "provider", System) /\ reply' = reply
  BY Zenon DEF Connections
<1> HIDE DEF ids
<1>5. ASSUME ids \subseteq DOMAIN db[Interface], v' = [v EXCEPT ![w].names = NamesOf(ids)],
             Goto(w, "provider", System), reply' = reply
      PROVE  WorkersOK'
  <2>1. NamesOf(ids) \subseteq STRING
    <3>1. \A i \in DOMAIN db[Interface] : db[Interface][i] \in [name : STRING]
      BY RowTypes, Zenon DEF RegistryTypes, TablesOK, Tables
    <3>2. \A i \in ids : db[Interface][i].name \in STRING
      BY <1>5, <3>1, Zenon
    <3>3. QED
      BY <3>2, Zenon DEF NamesOf
  <2>2. PICK x : x = [v[w] EXCEPT !.names = NamesOf(ids)]
    BY Zenon
  <2>3. v' = [v EXCEPT ![w] = x]
    BY <1>5, <2>2, Zenon
  <2>4. x \in LocalVariables /\ x.rows # {}
    BY <1>3, <2>1, <2>2, Zenon DEF LocalVariables
  <2>5. PICK b \in {[step |-> "connections", table |-> Connection],
                    [step |-> "provider", table |-> System]} : at' = [at EXCEPT ![w] = b]
    BY <1>5, Zenon DEF Goto
  <2>6. at[w].step \in {"entries", "connections", "provider"}
    BY <1>1, Zenon
  <2>7. QED
    BY <1>1, <1>5, <2>3, <2>4, <2>5, <2>6, QueryGoesOn, Zenon DEF RegistryTypes
<1>6. WorkersOK'
  BY <1>1, <1>2, <1>4, <1>5, RepliesOnly, Zenon DEF RegistryTypes
<1>7. TablesOK' /\ CountsOK'
  BY TablesKept, CountsKept, Zenon DEF Connections, RegistryTypes
<1>8. QED
  BY <1>6, <1>7, Zenon DEF RegistryTypes

LEMMA ProviderTyped ==
    ASSUME RegistryTypes, NEW w \in Workers, Provider(w)
    PROVE  RegistryTypes'
<1> DEFINE e     == Current(w)
           rest  == v[w].rows \ {e}
           new   == [uri |-> e.row.uri, names |-> v[w].names,
                     system |-> db[System][e.row.system]]
           found == v[w].found \cup {new}
<1>1. at[w].step = "provider" /\ job' = job
  BY Zenon DEF Provider
<1>2. at[w].step # "idle"
  BY <1>1
<1>3. v[w] \in LocalVariables /\ v[w].rows # {}
  BY <1>1, <1>2, ServingFacts, Zenon DEF RegistryTypes
<1>4. \/ Reply(w, "ok", {}) /\ v' = v
      \/ /\ e.row.system \in DOMAIN db[System]
         /\ v' = [v EXCEPT ![w].rows = rest, ![w].found = found]
         /\ \/ Reply(w, "ok", Filter(found, job[w].required))
            \/ rest # {} /\ Goto(w, "connections", Connection) /\ reply' = reply
  BY Zenon DEF Provider
<1>5. ASSUME e.row.system \in DOMAIN db[System]
      PROVE  [v[w] EXCEPT !.rows = rest, !.found = found] \in LocalVariables
  <2>1. e \in v[w].rows
    BY <1>3, CurrentRow, Zenon
  <2>2. /\ v[w].rows \subseteq [id : Ids, row : RowOf(Entry)]
        /\ v[w].names \subseteq STRING /\ v[w].found \subseteq Answers
    BY <1>3, LocalFields, Zenon
  <2>3. e.row \in [service : Ids, system : Ids, uri : Uris]
    BY <2>1, <2>2, RowTypes, Zenon
  <2>4. db[System][e.row.system] \in SystemRow
    BY <1>5, RowTypes, Zenon DEF RegistryTypes, TablesOK, Tables
  <2>5. e.row.uri \in Uris
    BY <2>3, Zenon
  <2>6. new \in Answers
    BY <2>2, <2>4, <2>5, Zenon DEF Answers
  <2>7. found \subseteq Answers /\ rest \subseteq [id : Ids, row : RowOf(Entry)]
    BY <2>2, <2>6, Zenon
  <2> HIDE DEF found, rest
  <2>8. QED
    BY <1>3, <2>7, Zenon DEF LocalVariables
<1>6. ASSUME e.row.system \in DOMAIN db[System],
             v' = [v EXCEPT ![w].rows = rest, ![w].found = found],
             \/ Reply(w, "ok", Filter(found, job[w].required))
             \/ rest # {} /\ Goto(w, "connections", Connection) /\ reply' = reply
      PROVE  WorkersOK'
  <2>1. PICK x : x = [v[w] EXCEPT !.rows = rest, !.found = found]
    BY Zenon
  <2>2. x \in LocalVariables
    BY <1>5, <1>6, <2>1, Zenon
  <2> HIDE DEF rest, found
  <2>3. v' = [v EXCEPT ![w] = x]
    BY <1>6, <2>1, Zenon
  <2>4. x.rows = rest
    BY <1>3, <2>1, Zenon DEF LocalVariables
  <2>5. CASE Reply(w, "ok", Filter(found, job[w].required))
    <3>1. SetsLocals(w, x)
      BY <2>3, Zenon DEF SetsLocals
    <3>2. QED
      BY <1>1, <1>2, <2>2, <2>5, <3>1, Replies, Zenon DEF RegistryTypes
  <2>6. CASE rest # {} /\ Goto(w, "connections", Connection) /\ reply' = reply
    <3>1. PICK b \in {[step |-> "connections", table |-> Connection],
                      [step |-> "provider", table |-> System]} : at' = [at EXCEPT ![w] = b]
      BY <2>6, Zenon DEF Goto
    <3>2. at[w].step \in {"entries", "connections", "provider"} /\ x.rows # {}
      BY <1>1, <2>4, <2>6, Zenon
    <3>3. QED
      BY <1>1, <2>2, <2>3, <2>6, <3>1, <3>2, QueryGoesOn, Zenon DEF RegistryTypes
  <2>7. QED
    BY <1>6, <2>5, <2>6, Zenon
<1>7. WorkersOK'
  BY <1>1, <1>2, <1>4, <1>6, RepliesOnly, Zenon DEF RegistryTypes
<1>8. TablesOK' /\ CountsOK'
  BY TablesKept, CountsKept, Zenon DEF Provider, RegistryTypes
<1>9. QED
  BY <1>7, <1>8, Zenon DEF RegistryTypes

LEMMA UnexecutedTyped ==
    ASSUME RegistryTypes, NEW w \in Workers, Unexecuted(w)
    PROVE  RegistryTypes'
<1>1. /\ job' = job /\ v' = [v EXCEPT ![w].unread = TRUE]
      /\ Reply(w, IF at[w].step \in {"select", "find"} THEN "error" ELSE "ok", {})
  BY Zenon DEF Unexecuted
<1>2. at[w].step # "idle"
  BY DEF Unexecuted, FetchesRows
<1>3. v[w] \in LocalVariables
  BY <1>2, ServingFacts, Zenon DEF RegistryTypes
<1>4. PICK x : x = [v[w] EXCEPT !.unread = TRUE]
  BY Zenon
<1>5. x \in LocalVariables
  BY <1>3, <1>4, Zenon DEF LocalVariables
<1>6. SetsLocals(w, x)
  BY <1>1, <1>4, Zenon DEF SetsLocals
<1>7. WorkersOK'
  BY <1>1, <1>2, <1>5, <1>6, Replies, Zenon DEF RegistryTypes
<1>8. TablesOK'
  BY TablesKept, Zenon DEF Unexecuted, RegistryTypes
<1>9. CountsOK'
  <2>1. /\ failures \in 0 .. MaxFailures /\ failures < MaxFailures /\ failures' = failures + 1
        /\ cascade' = cascade /\ up' = up /\ served' = served
    BY Zenon DEF Unexecuted, RegistryTypes, CountsOK
  <2>2. failures' \in 0 .. MaxFailures
    BY <2>1, BoundsAssumption
  <2>3. QED
    BY <2>1, <2>2, Zenon DEF CountsOK, RegistryTypes
<1>10. QED
  BY <1>7, <1>8, <1>9, Zenon DEF RegistryTypes

LEMMA ThrowTyped ==
    ASSUME RegistryTypes, NEW w \in Workers, Throw(w)
    PROVE  RegistryTypes'
<1>1. /\ job' = [u \in Workers |-> NoJob] /\ at' = [u \in Workers |-> Idle]
      /\ v' = [u \in Workers |-> Locals] /\ reply' = [u \in Workers |-> NoReply]
  BY Zenon DEF Throw
<1>2. WorkersOK'
  BY <1>1, Zenon DEF WorkersOK, WorkerOK
<1>3. TablesOK'
  BY TablesKept, Zenon DEF Throw, RegistryTypes
<1>4. CountsOK'
  <2>1. /\ failures \in 0 .. MaxFailures
        /\ failures' = failures \/ (failures < MaxFailures /\ failures' = failures + 1)
        /\ cascade' = cascade /\ up' = FALSE /\ served' = served
    BY Zenon DEF Throw, RegistryTypes, CountsOK
  <2>2. failures' \in 0 .. MaxFailures
    BY <2>1, BoundsAssumption
  <2>3. QED
    BY <2>1, <2>2, Zenon DEF CountsOK, RegistryTypes
<1>5. QED
  BY <1>2, <1>3, <1>4, Zenon DEF RegistryTypes

\* Every step keeps the types, whatever the number of workers.
LEMMA NextTyped == RegistryTypes /\ [Next]_vars => RegistryTypes'
<1> SUFFICES ASSUME RegistryTypes, [Next]_vars PROVE RegistryTypes'
  BY Zenon
<1>1. CASE UNCHANGED vars
  BY <1>1, Zenon DEF vars, RegistryTypes, TablesOK, WorkersOK, CountsOK
<1>2. CASE Reboot
  <2>1. TablesOK' /\ WorkersOK'
    BY <1>2, Zenon DEF Reboot, RegistryTypes, TablesOK, WorkersOK
  <2>2. CountsOK'
    BY <1>2, Zenon DEF Reboot, RegistryTypes, CountsOK
  <2>3. QED
    BY <2>1, <2>2, Zenon DEF RegistryTypes
<1>3. ASSUME NEW w \in Workers, Work(w) PROVE RegistryTypes'
  BY <1>3, StartTyped, RejectTyped, CheckTyped, InsertStepTyped, RecheckTyped, SelectTyped,
     FindTyped, DeleteStepTyped, UpdateStepTyped, EntriesTyped, ConnectionsTyped,
     ProviderTyped, DoneTyped, Zenon DEF Work
<1>4. ASSUME NEW w \in Workers, Unexecuted(w) \/ Throw(w) PROVE RegistryTypes'
  BY <1>4, UnexecutedTyped, ThrowTyped, Zenon
<1>5. QED
  BY <1>1, <1>2, <1>3, <1>4, Zenon DEF Next, Quiet

LEMMA RegistryTypesAlways == Spec => []RegistryTypes
BY InitTyped, NextTyped, PTL DEF Spec

\* TypeOK is part of the invariant.
LEMMA TypesImplyTypeOK == RegistryTypes => TypeOK
<1> SUFFICES ASSUME RegistryTypes PROVE TypeOK
  OBVIOUS
<1>1. \A t \in Tables : /\ DOMAIN db[t] \subseteq 1 .. (nextId[t] - 1)
                        /\ db[t] \in [DOMAIN db[t] -> RowOf(t)]
  BY Zenon DEF RegistryTypes, TablesOK
<1>2. /\ cascade \in BOOLEAN /\ up \in BOOLEAN /\ served \in 0 .. MaxRequests
      /\ failures \in 0 .. MaxFailures
  BY Zenon DEF RegistryTypes, CountsOK
<1>3. ASSUME NEW w \in Workers
      PROVE  /\ job[w] \in Requests \cup {NoJob}
             /\ at[w].table \in Tables
             /\ at[w] = Idle <=> job[w] = NoJob
             /\ at[w] = Idle => v[w] = Locals /\ reply[w] = NoReply
  <2>1. CASE at[w] = Idle
    <3>1. Idle.table \in Tables
      BY DEF Idle, Tables
    <3>2. QED
      BY <2>1, <3>1, IdleWorker, Zenon DEF RegistryTypes
  <2>2. CASE at[w] # Idle
    <3>1. Serving(job[w], at[w], v[w], reply[w])
      BY <2>2, Zenon DEF RegistryTypes, WorkersOK, WorkerOK
    <3>2. job[w] \in Requests /\ StepOf(job[w], at[w])
      BY <3>1, Zenon DEF Serving
    <3>3. job[w] # NoJob
      BY <3>1, ServingIsBusy, Zenon
    <3>4. job[w].kind \in {"put", "patch", "delete"} => job[w].table \in Tables
      BY <3>2, RequestFields DEF Tables
    <3>5. at[w].table \in Tables
      BY <3>2, <3>4 DEF StepOf, Tables
    <3>6. QED
      BY <2>2, <3>2, <3>3, <3>5, Zenon
  <2>3. QED
    BY <2>1, <2>2, Zenon
<1>4. QED
  BY <1>1, <1>2, <1>3, Zenon DEF TypeOK

(* The tables, the ids and the handlers of the registry are type correct for any
   number of workers and whatever requests arrive: every id in a row is a real id
   and never the empty one a failed lookup leaves (DbWrapper.h), and an idle worker
   has nothing left of its last request. *)
THEOREM RegistryTypeCorrect == Spec => []TypeOK
BY RegistryTypesAlways, TypesImplyTypeOK, PTL

-----------------------------------------------------------------------------
(* One worker.  The properties below fail when the statements of two        *)
(* registrations interleave, so they are proved for a server with one.      *)

OneWorker == \A u, w \in Workers : u = w

\* what the tables hold between any two statements
NamesUnique == \A i, j \in DOMAIN db[Definition] :
                   db[Definition][i].name = db[Definition][j].name => i = j

InterfacesExist == \A i \in DOMAIN db[Connection] :
                       db[Connection][i].interface \in DOMAIN db[Interface]

TablesSound == UriUnique /\ NamesUnique /\ InterfacesExist

\* the definition and the system that the request names
Named(w)    == /\ v[w].service \in DOMAIN db[Definition]
               /\ db[Definition][v[w].service].name = job[w].service
Addressed(w) == /\ v[w].system \in DOMAIN db[System]
                /\ db[System][v[w].system] = job[w].system

\* a registration has been through the entry, and through a connection
PastEntry(w) == \/ at[w].step \in Storing /\ at[w].table = Connection
                \/ at[w].step = "select"
                \/ at[w].step = "reply" /\ reply[w].status = "ok"
PastConnection(w) == PastEntry(w) /\ (at[w].step \in Storing => v[w].k > 1)

Registering(w) ==
    /\ at[w].step = "insert" /\ at[w].table = Entry => Matching(w, Entry) = {}
    /\ at[w].step = "recheck" => Matching(w, at[w].table) # {}
    /\ \A n \in DOMAIN v[w].interfaces : v[w].interfaces[n] \in DOMAIN db[Interface]
    /\ PastEntry(w) => /\ v[w].entry \in DOMAIN db[Entry]
                       /\ db[Entry][v[w].entry].uri = job[w].uri
    /\ PastConnection(w) => ConnectionsOf({v[w].entry}) # {}

Unregistering(w) ==
    /\ (at[w].step = "find" /\ at[w].table # Definition) \/ at[w].step = "delete" => Named(w)
    /\ (at[w].step = "find" /\ at[w].table = Entry) \/ at[w].step = "delete" => Addressed(w)

\* the rows a query has to go through, and what it answers for one
Result(w) == {[id |-> i, row |-> db[Entry][i]] : i \in EntriesOf({v[w].service}, {})}
Answer(e) == [uri |-> e.row.uri, names |-> NamesOf(InterfacesOf(e.id)),
              system |-> db[System][e.row.system]]

Exact(w) == /\ reply[w].status = "ok" /\ ~v[w].unread
            /\ \A i \in DOMAIN db[Entry] : Whole(i)
            => reply[w].found = Registered(job[w].service, job[w].required)

Querying(w) ==
    /\ at[w].step \in {"entries", "connections", "provider"} => Named(w)
    /\ at[w].step \in {"find", "entries"} => v[w].found = {}
    /\ at[w].step \in {"connections", "provider"} =>
           /\ v[w].rows \subseteq Result(w)
           /\ v[w].found = {Answer(e) : e \in Result(w) \ v[w].rows}
    /\ at[w].step = "provider" => v[w].names = NamesOf(InterfacesOf(Current(w).id))
    /\ at[w].step = "reply" => Exact(w)

Flow(w) == /\ job[w].kind = "register" => Registering(w)
           /\ job[w].kind = "unregister" => Unregistering(w)
           /\ job[w].kind = "query" => Querying(w)

RegistryInv == RegistryTypes /\ TablesSound /\ \A w \in Workers : Flow(w)

\* What a step does to the only worker, it does to all.
LEMMA AllWorkers ==
    ASSUME OneWorker, NEW w \in Workers, Flow(w)'
    PROVE  (\A u \in Workers : Flow(u))'
<1>1. ASSUME NEW u \in Workers PROVE Flow(u)'
  <2>1. u = w
    BY Zenon DEF OneWorker
  <2>2. QED
    BY <2>1, Zenon
<1>2. QED
  BY <1>1, Zenon

\* TablesSound is about the tables only.
LEMMA SoundKept ==
    ASSUME TablesSound, db' = db
    PROVE  TablesSound'
BY Zenon DEF TablesSound, UriUnique, NamesUnique, InterfacesExist

\* Flow says nothing of a worker that serves none of the three requests.
LEMMA OtherFlow ==
    ASSUME NEW w, job'[w].kind \notin {"register", "unregister", "query"}
    PROVE  Flow(w)'
BY Zenon DEF Flow

LEMMA StartFlow ==
    ASSUME RegistryTypes, NEW w \in Workers, Start(w)
    PROVE  Flow(w)'
<1>1. PICK r \in Requests : /\ job' = [job EXCEPT ![w] = r]
                            /\ at' = [at EXCEPT ![w] = First(r)]
  BY Zenon DEF Start
<1>2. v[w] = Locals
  BY IdleWorker, Zenon DEF Start, RegistryTypes
<1>3. job'[w] = r /\ at'[w] = First(r) /\ v'[w] = Locals
  BY <1>1, <1>2, Zenon DEF Start, RegistryTypes, WorkersOK
<1>4. CASE r.kind = "register"
  <2>1. First(r) = [step |-> "check", table |-> Definition]
    BY <1>4 DEF First
  <2>2. at'[w].step = "check" /\ at'[w].table = Definition
    BY <1>3, <2>1
  <2>3. v'[w].interfaces = <<>>
    BY <1>3, LocalsTyped, Zenon
  <2>4. ~PastEntry(w)'
    BY <2>2, TableNames DEF PastEntry
  <2>5. Registering(w)'
    BY <2>2, <2>3, <2>4 DEF Registering, PastConnection
  <2>6. QED
    BY <1>3, <1>4, <2>5 DEF Flow
<1>5. CASE r.kind = "unregister"
  <2>1. First(r) = [step |-> "find", table |-> Definition]
    BY <1>5 DEF First
  <2>2. at'[w].step = "find" /\ at'[w].table = Definition
    BY <1>3, <2>1
  <2>3. Unregistering(w)'
    BY <2>2, TableNames DEF Unregistering
  <2>4. QED
    BY <1>3, <1>5, <2>3 DEF Flow
<1>6. CASE r.kind = "query"
  <2>1. First(r) = [step |-> "find", table |-> Definition]
    BY <1>6 DEF First
  <2>2. at'[w].step = "find" /\ v'[w].found = {}
    BY <1>3, <2>1 DEF Locals
  <2>3. Querying(w)'
    BY <2>2 DEF Querying
  <2>4. QED
    BY <1>3, <1>6, <2>3 DEF Flow
<1>7. CASE r.kind \notin {"register", "unregister", "query"}
  BY <1>3, <1>7, OtherFlow, Zenon
<1>8. QED
  BY <1>4, <1>5, <1>6, <1>7, Zenon

\* Rows found by a SELECT, and what a SELECT by a worker's variables finds.
LEMMA MatchingRows ==
    ASSUME NEW w
    PROVE  /\ \A t : Matching(w, t) \subseteq DOMAIN db[t]
           /\ \A i \in Matching(w, Entry) : db[Entry][i].uri = job[w].uri
           /\ \A i \in DOMAIN db[Entry] : db[Entry][i].uri = job[w].uri => i \in Matching(w, Entry)
           /\ Matching(w, Connection) = ConnectionsOf({v[w].entry})
<1>1. \A t : Matching(w, t) \subseteq DOMAIN db[t]
  BY Zenon DEF Matching
<1>2. Matching(w, Entry) = {i \in DOMAIN db[Entry] : db[Entry][i].uri = job[w].uri}
  BY TableNames, Zenon DEF Matching
<1>3. Matching(w, Connection) = {i \in DOMAIN db[Connection] : db[Connection][i].entry = v[w].entry}
  BY TableNames, Zenon DEF Matching
<1>4. Matching(w, Connection) = ConnectionsOf({v[w].entry})
  BY <1>3, Zenon DEF ConnectionsOf
<1>5. QED
  BY <1>1, <1>2, <1>4, Zenon

\* A registration that has found or stored its value goes on.
LEMMA FoundFlow ==
    ASSUME RegistryInv, NEW w \in Workers, job[w].kind = "register",
           at[w].step \in {"check", "recheck"},
           NEW id \in Matching(w, at[w].table), Found(w, id),
           db' = db, job' = job, reply' = reply
    PROVE  Registering(w)'
<1> DEFINE t == at[w].table
<1>1. at[w].step # "idle"
  OBVIOUS
<1>2. v[w] \in LocalVariables /\ StepOf(job[w], at[w])
  BY <1>1, ServingFacts, Zenon DEF RegistryInv, RegistryTypes
<1>3. t \in Tables
  BY <1>2 DEF StepOf, Storing, Tables
<1>4. id \in DOMAIN db[t] /\ id \in Nat
  BY <1>3, MatchingRows, IdsAreNat, Zenon DEF RegistryInv, RegistryTypes
<1>5. PICK b : b = Bind(v[w], t, id) /\ Bound(v[w], t, id, b)
  BY <1>2, <1>3, <1>4, BindFields, Zenon
<1>6. b \in LocalVariables
  BY <1>5, Zenon DEF Bound
<1>7. PICK x : x = Restart(b, t) /\ Restarted(b, t, x)
  BY <1>6, RestartFields, Zenon
<1>8. v'[w] = x /\ at'[w] = After(w, t, x)
  BY <1>5, <1>7, Zenon DEF Found, RegistryInv, RegistryTypes, WorkersOK
<1>9. /\ x.entry = IF t = Entry THEN id ELSE v[w].entry
      /\ x.interfaces = IF t = Interface THEN Append(v[w].interfaces, id) ELSE v[w].interfaces
      /\ t = Entry => x.k = 1
  BY <1>5, <1>7, Zenon DEF Bound, Restarted
<1>10. Registering(w)
  BY Zenon DEF RegistryInv, Flow
<1>11. /\ at'[w].step \in {"check", "select"}
       /\ at'[w].step = "check" /\ at'[w].table = Connection => t \in {Entry, Connection}
       /\ at'[w].step = "select" => t = Connection
  <2>1. t \in {Definition, System, Interface, Entry, Connection}
    BY <1>3, Zenon DEF Tables
  <2>2. CASE t = Definition
    BY <1>8, <2>2, AfterCases, TableNames
  <2>3. CASE t = System
    BY <1>8, <2>3, AfterCases, TableNames
  <2>4. CASE t = Interface
    BY <1>8, <2>4, AfterCases, TableNames
  <2>5. CASE t \in {Entry, Connection}
    BY <1>8, <2>5, AfterCases, TableNames
  <2>6. QED
    BY <2>1, <2>2, <2>3, <2>4, <2>5, Zenon
<1>12. ASSUME NEW n \in DOMAIN x.interfaces PROVE x.interfaces[n] \in DOMAIN db[Interface]
  <2>1. \A m \in DOMAIN v[w].interfaces : v[w].interfaces[m] \in DOMAIN db[Interface]
    BY <1>10, Zenon DEF Registering
  <2>2. CASE t = Interface
    <3>1. v[w].interfaces \in Seq(Nat)
      BY <1>2, LocalFields, Zenon
    <3>2. \A s \in Seq(Nat) : \A m \in DOMAIN Append(s, id) :
             Append(s, id)[m] = id \/ (m \in DOMAIN s /\ Append(s, id)[m] = s[m])
      BY <1>4
    <3>3. x.interfaces = Append(v[w].interfaces, id)
      BY <1>9, <2>2, Zenon
    <3>4. n \in DOMAIN Append(v[w].interfaces, id)
      BY <3>3, Zenon
    <3>5. \/ Append(v[w].interfaces, id)[n] = id
          \/ /\ n \in DOMAIN v[w].interfaces
             /\ Append(v[w].interfaces, id)[n] = v[w].interfaces[n]
      BY <3>1, <3>2, <3>4, Zenon
    <3>6. id \in DOMAIN db[Interface]
      BY <1>4, <2>2, Zenon
    <3>7. QED
      BY <2>1, <3>3, <3>5, <3>6, Zenon
  <2>3. CASE t # Interface
    BY <1>9, <2>1, <2>3, Zenon
  <2>4. QED
    BY <2>2, <2>3, Zenon
<1>13. ASSUME PastEntry(w)'
       PROVE  /\ x.entry \in DOMAIN db[Entry]
              /\ db[Entry][x.entry].uri = job[w].uri
  <2>1. t \in {Entry, Connection}
    BY <1>11, <1>13 DEF PastEntry, Storing
  <2>2. CASE t = Entry
    BY <1>4, <1>9, <2>2, MatchingRows, Zenon
  <2>3. CASE t = Connection
    <3>1. PastEntry(w)
      BY <2>3 DEF PastEntry, Storing
    <3>2. QED
      BY <1>9, <1>10, <2>3, <3>1, TableNames, Zenon DEF Registering
  <2>4. QED
    BY <2>1, <2>2, <2>3, Zenon
<1>14. ASSUME PastConnection(w)'
       PROVE  ConnectionsOf({x.entry}) # {}
  <2>1. t \in {Entry, Connection}
    BY <1>11, <1>14 DEF PastConnection, PastEntry, Storing
  <2>2. t # Entry
    BY <1>8, <1>9, <1>11, <1>14, TableNames DEF PastConnection, Storing
  <2>3. t = Connection /\ x.entry = v[w].entry
    BY <1>9, <2>1, <2>2, Zenon
  <2>4. QED
    BY <2>3, MatchingRows, Zenon
<1>15. ConnectionsOf({x.entry}) = ConnectionsOf({v[w].entry})'
  BY <1>8, Zenon DEF ConnectionsOf
<1>16. QED
  BY <1>8, <1>11, <1>12, <1>13, <1>14, <1>15 DEF Registering

\* A SELECT of the same worker finds the same rows when the tables are the same.
LEMMA MatchingKept ==
    ASSUME NEW w, db' = db, job' = job, v' = v
    PROVE  \A t : Matching(w, t)' = Matching(w, t)
BY Zenon DEF Matching

LEMMA CheckFlow ==
    ASSUME RegistryInv, NEW w \in Workers, Check(w)
    PROVE  Flow(w)'
<1>1. at[w].step = "check" /\ db' = db /\ job' = job /\ reply' = reply
  BY Zenon DEF Check
<1>2. at[w].step # "idle"
  BY <1>1
<1>3. StepOf(job[w], at[w])
  BY <1>2, ServingFacts, Zenon DEF RegistryInv, RegistryTypes
<1>4. job'[w] = job[w] /\ job[w].kind \in {"register", "post_services", "post_systems"}
  BY <1>1, <1>3 DEF StepOf, Storing
<1>5. CASE job[w].kind # "register"
  BY <1>4, <1>5, OtherFlow
<1>6. CASE job[w].kind = "register"
  <2>1. ASSUME NEW id \in Matching(w, at[w].table), Found(w, id)
        PROVE  Registering(w)'
    BY <1>1, <1>6, <2>1, FoundFlow
  <2>2. ASSUME Matching(w, at[w].table) = {}, Goto(w, "insert", at[w].table), v' = v
        PROVE  Registering(w)'
    <3>1. at'[w].step = "insert" /\ at'[w].table = at[w].table
      BY <2>2, Zenon DEF Goto, RegistryInv, RegistryTypes, WorkersOK
    <3>2. Registering(w)
      BY <1>6, Zenon DEF RegistryInv, Flow
    <3>3. Matching(w, Entry)' = Matching(w, Entry)
      BY <1>1, <2>2, MatchingKept, Zenon
    <3>4. PastEntry(w)' => PastEntry(w)
      BY <1>1, <3>1 DEF PastEntry, Storing
    <3>5. PastConnection(w)' => PastConnection(w)
      BY <1>1, <2>2, <3>1, <3>4 DEF PastConnection, Storing
    <3>6. ConnectionsOf({v[w].entry})' = ConnectionsOf({v[w].entry})
      BY <1>1, <2>2, Zenon DEF ConnectionsOf
    <3>7. QED
      BY <1>1, <2>2, <3>1, <3>2, <3>3, <3>4, <3>5, <3>6 DEF Registering
  <2>3. Registering(w)'
    BY <2>1, <2>2, Zenon DEF Check
  <2>4. QED
    BY <1>4, <1>6, <2>3 DEF Flow
<1>7. QED
  BY <1>5, <1>6, Zenon

LEMMA RecheckFlow ==
    ASSUME RegistryInv, NEW w \in Workers, Recheck(w)
    PROVE  Flow(w)'
<1>1. at[w].step = "recheck" /\ db' = db /\ job' = job /\ reply' = reply
  BY Zenon DEF Recheck
<1>2. at[w].step # "idle"
  BY <1>1
<1>3. StepOf(job[w], at[w])
  BY <1>2, ServingFacts, Zenon DEF RegistryInv, RegistryTypes
<1>4. job'[w] = job[w] /\ job[w].kind \in {"register", "post_services", "post_systems"}
  BY <1>1, <1>3 DEF StepOf, Storing
<1>5. CASE job[w].kind # "register"
  BY <1>4, <1>5, OtherFlow
<1>6. CASE job[w].kind = "register"
  <2>1. Matching(w, at[w].table) # {}
    BY <1>1, <1>6, Zenon DEF RegistryInv, Flow, Registering
  <2>2. PICK id \in Matching(w, at[w].table) : Found(w, id)
    BY <2>1, Zenon DEF Recheck
  <2>3. Registering(w)'
    BY <1>1, <1>6, <2>2, FoundFlow
  <2>4. QED
    BY <1>4, <1>6, <2>3 DEF Flow
<1>7. QED
  BY <1>5, <1>6, Zenon

LEMMA SelectFlow ==
    ASSUME RegistryInv, NEW w \in Workers, Select(w)
    PROVE  Flow(w)'
<1>1. at[w].step = "select" /\ db' = db /\ job' = job /\ v' = v
  BY Zenon DEF Select
<1>2. at[w].step # "idle"
  BY <1>1
<1>3. StepOf(job[w], at[w])
  BY <1>2, ServingFacts, Zenon DEF RegistryInv, RegistryTypes
<1>4. /\ job'[w] = job[w]
      /\ job[w].kind \in {"register", "post_services", "post_systems", "put", "patch"}
  BY <1>1, <1>3 DEF StepOf, Storing
<1>5. CASE job[w].kind # "register"
  BY <1>4, <1>5, OtherFlow
<1>6. CASE job[w].kind = "register"
  <2>1. at'[w].step \in {"select", "reply"}
    <3>1. \E b : at' = [at EXCEPT ![w] = b] /\ b.step \in {"select", "reply"}
      BY DEF Select, Reply, Goto
    <3>2. QED
      BY <3>1, Zenon DEF RegistryInv, RegistryTypes, WorkersOK
  <2>2. Registering(w) /\ PastEntry(w) /\ PastConnection(w)
    BY <1>1, <1>6 DEF RegistryInv, Flow, PastEntry, PastConnection, Storing
  <2>3. ConnectionsOf({v[w].entry})' = ConnectionsOf({v[w].entry})
    BY <1>1, Zenon DEF ConnectionsOf
  <2>4. Registering(w)'
    BY <1>1, <2>1, <2>2, <2>3 DEF Registering
  <2>5. QED
    BY <1>4, <1>6, <2>4 DEF Flow
<1>7. QED
  BY <1>5, <1>6, Zenon

\* An INSERT adds one row under a new id and leaves the others.
LEMMA InsertedRow ==
    ASSUME TablesOK, NEW t \in Tables, NEW row, InsertRow(t, row)
    PROVE  /\ \A u \in Tables : u # t => db'[u] = db[u]
           /\ nextId[t] \notin DOMAIN db[t]
           /\ DOMAIN db'[t] = DOMAIN db[t] \cup {nextId[t]}
           /\ db'[t][nextId[t]] = row
           /\ \A i \in DOMAIN db[t] : db'[t][i] = db[t][i]
<1>1. nextId[t] \in Nat /\ DOMAIN db[t] \subseteq 1 .. (nextId[t] - 1)
  BY DEF TablesOK, Ids
<1>2. nextId[t] \notin DOMAIN db[t]
  BY <1>1
<1>3. db'[t] = [i \in DOMAIN db[t] \cup {nextId[t]} |-> IF i = nextId[t] THEN row ELSE db[t][i]]
  BY Zenon DEF InsertRow, TablesOK
<1>4. \A u \in Tables : u # t => db'[u] = db[u]
  BY Zenon DEF InsertRow, TablesOK
<1>5. QED
  BY <1>2, <1>3, <1>4, Zenon

\* The statement of a worker that inserts, and the row.
LEMMA Inserting ==
    ASSUME RegistryInv, NEW w \in Workers, Insert(w)
    PROVE  /\ at[w].step = "insert" /\ at[w].table \in Tables
           /\ at[w].table \notin {Definition, System} => job[w].kind = "register"
           /\ ~InsertFails(at[w].table, NewRow(w, at[w].table))
           /\ InsertRow(at[w].table, NewRow(w, at[w].table))
           /\ at'[w].step = "recheck" /\ at'[w].table = at[w].table
           /\ job' = job /\ v' = v
<1>1. at[w].step = "insert"
  BY Zenon DEF Insert
<1>2. at[w].step # "idle"
  BY <1>1
<1>3. StepOf(job[w], at[w])
  BY <1>2, ServingFacts, Zenon DEF RegistryInv, RegistryTypes
<1>4. /\ at[w].table \in Tables
      /\ at[w].table \notin {Definition, System} => job[w].kind = "register"
  BY <1>1, <1>3 DEF StepOf, Storing, Tables
<1>5. at'[w].step = "recheck" /\ at'[w].table = at[w].table
  BY Zenon DEF Insert, Goto, RegistryInv, RegistryTypes, WorkersOK
<1>6. QED
  BY <1>1, <1>4, <1>5, Zenon DEF Insert

LEMMA InsertedElsewhere ==
    ASSUME RegistryInv, NEW w \in Workers, Insert(w), NEW u \in Tables, u # at[w].table
    PROVE  db'[u] = db[u]
<1>1. PICK t \in Tables : t = at[w].table /\ InsertRow(t, NewRow(w, t))
  BY Inserting, Zenon
<1>2. QED
  BY <1>1, InsertedRow, Zenon DEF RegistryInv, RegistryTypes

LEMMA InsertUri ==
    ASSUME RegistryInv, NEW w \in Workers, Insert(w)
    PROVE  UriUnique'
<1>1. UriUnique /\ TablesOK
  BY Zenon DEF RegistryInv, RegistryTypes, TablesSound
<1>2. Entry \in Tables
  BY DEF Tables
<1>3. CASE at[w].table # Entry
  <2>1. db'[Entry] = db[Entry]
    BY <1>2, <1>3, InsertedElsewhere, Zenon
  <2>2. QED
    BY <1>1, <2>1, Zenon DEF UriUnique
<1>4. CASE at[w].table = Entry
  <2>1. PICK row : row = NewRow(w, Entry) /\ InsertRow(Entry, row)
    BY <1>4, Inserting, Zenon
  <2>2. row.uri = job[w].uri
    <3>1. row = [service |-> v[w].service, system |-> v[w].system, uri |-> job[w].uri]
      BY <2>1, TableNames, Zenon DEF NewRow
    <3>2. QED
      BY <3>1
  <2>3. Matching(w, Entry) = {}
    <3>1. job[w].kind = "register"
      BY <1>4, TableNames, Inserting
    <3>2. QED
      BY <1>4, <3>1, Inserting, Zenon DEF RegistryInv, Flow, Registering
  <2>4. \A i \in DOMAIN db[Entry] : db[Entry][i].uri # row.uri
    BY <2>2, <2>3, MatchingRows, Zenon
  <2>5. /\ DOMAIN db'[Entry] = DOMAIN db[Entry] \cup {nextId[Entry]}
        /\ db'[Entry][nextId[Entry]] = row
        /\ \A i \in DOMAIN db[Entry] : db'[Entry][i] = db[Entry][i]
    BY <1>1, <1>2, <2>1, InsertedRow, Zenon
  <2>6. QED
    BY <1>1, <2>4, <2>5, Zenon DEF UriUnique
<1>5. QED
  BY <1>3, <1>4, Zenon

LEMMA InsertNames ==
    ASSUME RegistryInv, NEW w \in Workers, Insert(w)
    PROVE  NamesUnique'
<1>1. NamesUnique /\ TablesOK
  BY Zenon DEF RegistryInv, RegistryTypes, TablesSound
<1>2. Definition \in Tables
  BY DEF Tables
<1>3. CASE at[w].table # Definition
  <2>1. db'[Definition] = db[Definition]
    BY <1>2, <1>3, InsertedElsewhere, Zenon
  <2>2. QED
    BY <1>1, <2>1, Zenon DEF NamesUnique
<1>4. CASE at[w].table = Definition
  <2>1. PICK row : /\ row = NewRow(w, Definition) /\ InsertRow(Definition, row)
                   /\ ~InsertFails(Definition, row)
    BY <1>4, Inserting, Zenon
  <2>2. \A i \in DOMAIN db[Definition] : db[Definition][i].name # row.name
    BY <2>1, Zenon DEF InsertFails, Duplicate, Names
  <2>3. /\ DOMAIN db'[Definition] = DOMAIN db[Definition] \cup {nextId[Definition]}
        /\ db'[Definition][nextId[Definition]] = row
        /\ \A i \in DOMAIN db[Definition] : db'[Definition][i] = db[Definition][i]
    BY <1>1, <1>2, <2>1, InsertedRow, Zenon
  <2>4. QED
    BY <1>1, <2>2, <2>3, Zenon DEF NamesUnique
<1>5. QED
  BY <1>3, <1>4, Zenon

LEMMA InsertInterfaces ==
    ASSUME RegistryInv, NEW w \in Workers, Insert(w)
    PROVE  InterfacesExist'
<1>1. InterfacesExist /\ TablesOK
  BY Zenon DEF RegistryInv, RegistryTypes, TablesSound
<1>2. Connection \in Tables /\ Interface \in Tables
  BY DEF Tables
<1>3. DOMAIN db[Interface] \subseteq DOMAIN db'[Interface]
  <2>1. PICK t \in Tables : t = at[w].table /\ InsertRow(t, NewRow(w, t))
    BY Inserting, Zenon
  <2>2. CASE t = Interface
    BY <1>1, <2>1, <2>2, InsertedRow, Zenon
  <2>3. CASE t # Interface
    BY <1>1, <1>2, <2>1, <2>3, InsertedRow, Zenon
  <2>4. QED
    BY <2>2, <2>3, Zenon
<1>4. CASE at[w].table # Connection
  <2>1. db'[Connection] = db[Connection]
    BY <1>2, <1>4, InsertedElsewhere, Zenon
  <2>2. QED
    BY <1>1, <1>3, <2>1, Zenon DEF InterfacesExist
<1>5. CASE at[w].table = Connection
  <2>1. PICK row : row = NewRow(w, Connection) /\ InsertRow(Connection, row)
    BY <1>5, Inserting, Zenon
  <2>2. row.interface = v[w].interfaces[v[w].k]
    <3>1. row = [entry |-> v[w].entry, interface |-> v[w].interfaces[v[w].k]]
      BY <2>1, TableNames, Zenon DEF NewRow
    <3>2. QED
      BY <3>1
  <2>3. job[w].kind = "register" /\ at[w].step = "insert" /\ at[w].step # "idle"
    BY <1>5, TableNames, Inserting
  <2>4. Registering(w)
    BY <2>3, Zenon DEF RegistryInv, Flow
  <2>5. v[w] \in LocalVariables /\ Looping(job[w], at[w], v[w]) /\ job[w] \in Requests
    BY <2>3, ServingFacts, Zenon DEF RegistryInv, RegistryTypes
  <2>6. LoopAt(job[w], Connection, v[w])
    BY <1>5, <2>3, <2>5 DEF Looping, Storing
  <2>7. Len(v[w].interfaces) = Len(job[w].interfaces) /\ v[w].k <= Len(job[w].interfaces)
    BY <2>6, Zenon DEF LoopAt
  <2>8. v[w].interfaces \in Seq(Nat) /\ v[w].k \in Nat \ {0}
    BY <2>5, LocalFields, Zenon
  <2>9. \A s \in Seq(Nat), k \in Nat \ {0} : k <= Len(s) => k \in DOMAIN s
    OBVIOUS
  <2>10. v[w].k \in DOMAIN v[w].interfaces
    BY <2>7, <2>8, <2>9, Zenon
  <2>11. row.interface \in DOMAIN db'[Interface]
    BY <1>3, <2>2, <2>4, <2>10, Zenon DEF Registering
  <2>12. /\ DOMAIN db'[Connection] = DOMAIN db[Connection] \cup {nextId[Connection]}
         /\ db'[Connection][nextId[Connection]] = row
         /\ \A i \in DOMAIN db[Connection] : db'[Connection][i] = db[Connection][i]
    BY <1>1, <1>2, <2>1, InsertedRow, Zenon
  <2>13. QED
    BY <1>1, <1>3, <2>11, <2>12, Zenon DEF InterfacesExist
<1>6. QED
  BY <1>4, <1>5, Zenon

\* The row that was inserted is one that the second SELECT finds.
LEMMA InsertMatches ==
    ASSUME RegistryInv, NEW w \in Workers, Insert(w), NEW t \in Tables, at[w].table = t
    PROVE  nextId[t] \in Matching(w, t)'
<1> DEFINE n == nextId[t]
<1>1. InsertRow(t, NewRow(w, t)) /\ job' = job /\ v' = v
  BY Inserting, Zenon
<1>2. n \in DOMAIN db'[t] /\ db'[t][n] = NewRow(w, t)
  BY <1>1, InsertedRow, Zenon DEF RegistryInv, RegistryTypes
<1>3. t \in {Definition, System, Interface, Entry, Connection}
  BY Zenon DEF Tables
<1>4. CASE t = Definition
  <2>1. db'[t][n] = [name |-> job[w].service]
    BY <1>2, <1>4, TableNames, Zenon DEF NewRow
  <2>2. db'[t][n].name = job'[w].service
    BY <1>1, <2>1
  <2>3. QED
    BY <1>2, <1>4, <2>2, TableNames, Zenon DEF Matching
<1>5. CASE t = System
  <2>1. db'[t][n] = job'[w].system
    BY <1>1, <1>2, <1>5, TableNames, Zenon DEF NewRow
  <2>2. QED
    BY <1>2, <1>5, <2>1, TableNames, Zenon DEF Matching
<1>6. CASE t = Interface
  <2>1. db'[t][n] = [name |-> job[w].interfaces[v[w].k]]
    BY <1>2, <1>6, TableNames, Zenon DEF NewRow
  <2>2. db'[t][n].name = job'[w].interfaces[v'[w].k]
    BY <1>1, <2>1
  <2>3. QED
    BY <1>2, <1>6, <2>2, TableNames, Zenon DEF Matching
<1>7. CASE t = Entry
  <2>1. db'[t][n] = [service |-> v[w].service, system |-> v[w].system, uri |-> job[w].uri]
    BY <1>2, <1>7, TableNames, Zenon DEF NewRow
  <2>2. db'[t][n].uri = job'[w].uri
    BY <1>1, <2>1
  <2>3. QED
    BY <1>2, <1>7, <2>2, TableNames, Zenon DEF Matching
<1>8. CASE t = Connection
  <2>1. db'[t][n] = [entry |-> v[w].entry, interface |-> v[w].interfaces[v[w].k]]
    BY <1>2, <1>8, TableNames, Zenon DEF NewRow
  <2>2. db'[t][n].entry = v'[w].entry
    BY <1>1, <2>1
  <2>3. QED
    BY <1>2, <1>8, <2>2, TableNames, Zenon DEF Matching
<1>9. QED
  BY <1>3, <1>4, <1>5, <1>6, <1>7, <1>8, Zenon

\* What was in a table is still in it.
LEMMA InsertKeeps ==
    ASSUME RegistryInv, NEW w \in Workers, Insert(w), NEW u \in Tables
    PROVE  /\ DOMAIN db[u] \subseteq DOMAIN db'[u]
           /\ \A i \in DOMAIN db[u] : db'[u][i] = db[u][i]
<1>1. PICK t \in Tables : t = at[w].table /\ InsertRow(t, NewRow(w, t))
  BY Inserting, Zenon
<1>2. CASE u = t
  BY <1>1, <1>2, InsertedRow, Zenon DEF RegistryInv, RegistryTypes
<1>3. CASE u # t
  <2>1. db'[u] = db[u]
    BY <1>1, <1>3, InsertedElsewhere, Zenon
  <2>2. QED
    BY <2>1, Zenon
<1>4. QED
  BY <1>2, <1>3, Zenon

LEMMA InsertFlow ==
    ASSUME RegistryInv, NEW w \in Workers, Insert(w)
    PROVE  Flow(w)'
<1>1. /\ at[w].step = "insert" /\ at'[w].step = "recheck" /\ at'[w].table = at[w].table
      /\ job' = job /\ v' = v
  BY Inserting, Zenon
<1>2. StepOf(job[w], at[w])
  <2>1. at[w].step # "idle"
    BY <1>1
  <2>2. QED
    BY <2>1, ServingFacts, Zenon DEF RegistryInv, RegistryTypes
<1>3. job'[w] = job[w] /\ job[w].kind \in {"register", "post_services", "post_systems"}
  BY <1>1, <1>2 DEF StepOf, Storing
<1>4. CASE job[w].kind # "register"
  BY <1>3, <1>4, OtherFlow
<1>5. CASE job[w].kind = "register"
  <2>1. Registering(w)
    BY <1>5, Zenon DEF RegistryInv, Flow
  <2>2. Matching(w, at[w].table)' # {}
    <3>1. PICK t \in Tables : at[w].table = t
      BY Inserting, Zenon
    <3>2. Matching(w, t)' # {}
      BY <3>1, InsertMatches, Zenon
    <3>3. QED
      BY <1>1, <3>1, <3>2, Zenon
  <2>3. Interface \in Tables /\ Entry \in Tables /\ Connection \in Tables
    BY DEF Tables
  <2>4. \A n \in DOMAIN v'[w].interfaces : v'[w].interfaces[n] \in DOMAIN db'[Interface]
    BY <1>1, <2>1, <2>3, InsertKeeps, Zenon DEF Registering
  <2>5. PastEntry(w)' => PastEntry(w)
    BY <1>1 DEF PastEntry, Storing
  <2>6. PastConnection(w)' => PastConnection(w)
    BY <1>1, <2>5 DEF PastConnection, Storing
  <2>7. PastEntry(w) => /\ v'[w].entry \in DOMAIN db'[Entry]
                        /\ db'[Entry][v'[w].entry].uri = job'[w].uri
    <3>1. SUFFICES ASSUME PastEntry(w)
                   PROVE  /\ v[w].entry \in DOMAIN db'[Entry]
                          /\ db'[Entry][v[w].entry].uri = job[w].uri
      BY <1>1, Zenon
    <3>2. v[w].entry \in DOMAIN db[Entry] /\ db[Entry][v[w].entry].uri = job[w].uri
      BY <2>1, <3>1, Zenon DEF Registering
    <3>3. QED
      BY <2>3, <3>2, InsertKeeps, Zenon
  <2>8. ConnectionsOf({v[w].entry}) \subseteq ConnectionsOf({v[w].entry})'
    <3>1. /\ DOMAIN db[Connection] \subseteq DOMAIN db'[Connection]
          /\ \A i \in DOMAIN db[Connection] : db'[Connection][i] = db[Connection][i]
      BY <2>3, InsertKeeps, Zenon
    <3>2. QED
      BY <1>1, <3>1, Zenon DEF ConnectionsOf
  <2>9. PastConnection(w) => ConnectionsOf({v[w].entry})' # {}
    BY <2>1, <2>8, Zenon DEF Registering
  <2>10. Registering(w)'
    BY <1>1, <2>2, <2>4, <2>5, <2>6, <2>7, <2>9 DEF Registering
  <2>11. QED
    BY <1>3, <1>5, <2>10 DEF Flow
<1>6. QED
  BY <1>4, <1>5, Zenon

LEMMA InsertInv ==
    ASSUME RegistryInv, NEW w \in Workers, Insert(w)
    PROVE  TablesSound' /\ Flow(w)'
BY InsertUri, InsertNames, InsertInterfaces, InsertFlow, Zenon DEF TablesSound

\* What a reply leaves behind.
LEMMA ReplyFields ==
    ASSUME WorkersOK, NEW w \in Workers, NEW status, NEW found, Reply(w, status, found)
    PROVE  at'[w].step = "reply" /\ reply'[w].status = status /\ reply'[w].found = found
<1>1. reply'[w] = [status |-> status, found |-> found]
  BY Zenon DEF Reply, WorkersOK
<1>2. at'[w] = [step |-> "reply", table |-> Entry]
  BY Zenon DEF Reply, Goto, WorkersOK
<1>3. QED
  BY <1>1, <1>2

\* Once it has replied, unregister has nothing more to find, and neither has a
\* query that replies with an error.
LEMMA RepliedFlow ==
    ASSUME NEW w, at'[w].step = "reply",
           \/ job'[w].kind = "unregister"
           \/ job'[w].kind = "query" /\ Exact(w)'
    PROVE  Flow(w)'
<1>1. CASE job'[w].kind = "unregister"
  <2>1. Unregistering(w)'
    BY DEF Unregistering
  <2>2. QED
    BY <1>1, <2>1 DEF Flow
<1>2. CASE job'[w].kind = "query" /\ Exact(w)'
  <2>1. Querying(w)'
    BY <1>2 DEF Querying
  <2>2. QED
    BY <1>2, <2>1 DEF Flow
<1>3. QED
  BY <1>1, <1>2, Zenon

\* The rows that unregister and query look for.
LEMMA SoughtRows ==
    ASSUME NEW w
    PROVE  /\ \A t : Sought(w, t) \subseteq DOMAIN db[t]
           /\ \A i \in Sought(w, Definition) : db[Definition][i].name = job[w].service
           /\ \A i \in Sought(w, System) : db[System][i] = job[w].system
           /\ \A i \in Sought(w, Entry) : /\ db[Entry][i].service = v[w].service
                                          /\ db[Entry][i].system = v[w].system
<1>1. \A t : Sought(w, t) \subseteq DOMAIN db[t]
  BY Zenon DEF Sought
<1>2. Sought(w, Definition) = {i \in DOMAIN db[Definition] : db[Definition][i].name = job[w].service}
  BY TableNames, Zenon DEF Sought
<1>3. Sought(w, System) = {i \in DOMAIN db[System] : db[System][i] = job[w].system}
  BY TableNames, Zenon DEF Sought
<1>4. Sought(w, Entry) = {i \in DOMAIN db[Entry] : /\ db[Entry][i].service = v[w].service
                                                   /\ db[Entry][i].system = v[w].system}
  BY TableNames, Zenon DEF Sought
<1>5. QED
  BY <1>1, <1>2, <1>3, <1>4, Zenon

LEMMA FindFlow ==
    ASSUME RegistryInv, NEW w \in Workers, Find(w)
    PROVE  Flow(w)'
<1> DEFINE t == at[w].table
<1>1. at[w].step = "find" /\ job' = job /\ db' = db
  BY Zenon DEF Find
<1>2. at[w].step # "idle"
  BY <1>1
<1>3. StepOf(job[w], at[w]) /\ v[w] \in LocalVariables
  BY <1>2, ServingFacts, Zenon DEF RegistryInv, RegistryTypes
<1>4. /\ t \in {Definition, System, Entry}
      /\ \/ job[w].kind = "unregister"
         \/ job[w].kind = "query" /\ t = Definition
  BY <1>1, <1>3 DEF StepOf, Storing
<1>5. t \in Tables
  BY <1>4 DEF Tables
<1>6. ASSUME Reply(w, "error", {})
      PROVE  Flow(w)'
  <2>1. at'[w].step = "reply" /\ reply'[w].status = "error"
    BY <1>6, ReplyFields, Zenon DEF RegistryInv, RegistryTypes
  <2>2. Exact(w)'
    BY <2>1 DEF Exact
  <2>3. QED
    BY <1>1, <1>4, <2>1, <2>2, RepliedFlow, Zenon
<1>7. ASSUME NEW id \in Sought(w, t), v' = [v EXCEPT ![w] = Bind(v[w], t, id)],
             at' = [at EXCEPT ![w] = FindAfter(w, t)]
      PROVE  Flow(w)'
  <2>1. id \in DOMAIN db[t] /\ id \in Nat
    BY <1>5, SoughtRows, IdsAreNat, Zenon DEF RegistryInv, RegistryTypes
  <2>2. PICK x : x = Bind(v[w], t, id) /\ Bound(v[w], t, id, x)
    BY <1>3, <1>5, <2>1, BindFields, Zenon
  <2>3. v'[w] = x /\ at'[w] = FindAfter(w, t) /\ job'[w] = job[w]
    BY <1>1, <1>7, <2>2, Zenon DEF RegistryInv, RegistryTypes, WorkersOK
  <2>4. /\ x.service = IF t = Definition THEN id ELSE v[w].service
        /\ x.system = IF t = System THEN id ELSE v[w].system
        /\ x.found = v[w].found
    BY <2>2, Zenon DEF Bound
  <2>5. t # Definition => v[w].service \in DOMAIN db[Definition]
                          /\ db[Definition][v[w].service].name = job[w].service
    BY <1>1, <1>4, Zenon DEF RegistryInv, Flow, Unregistering, Named
  <2>6. Named(w)'
    <3>1. CASE t = Definition
      BY <1>1, <2>1, <2>3, <2>4, <3>1, SoughtRows, Zenon DEF Named
    <3>2. CASE t # Definition
      BY <1>1, <2>3, <2>4, <2>5, <3>2, Zenon DEF Named
    <3>3. QED
      BY <3>1, <3>2, Zenon
  <2>7. CASE job[w].kind = "query"
    <3>1. FindAfter(w, t) = [step |-> "entries", table |-> Entry]
      BY <2>7, Zenon DEF FindAfter
    <3>2. at'[w].step = "entries"
      BY <2>3, <3>1
    <3>3. v'[w].found = {}
      BY <1>1, <2>3, <2>4, <2>7, Zenon DEF RegistryInv, Flow, Querying
    <3>4. Querying(w)'
      BY <2>6, <3>2, <3>3 DEF Querying
    <3>5. QED
      BY <2>3, <2>7, <3>4 DEF Flow
  <2>8. CASE job[w].kind = "unregister"
    <3>1. t \in {System, Entry} => Addressed(w)'
      <4>1. CASE t = System
        BY <1>1, <2>1, <2>3, <2>4, <4>1, SoughtRows, Zenon DEF Addressed
      <4>2. CASE t = Entry
        BY <1>1, <2>3, <2>4, <2>8, <4>2, TableNames, Zenon
           DEF RegistryInv, Flow, Unregistering, Addressed
      <4>3. QED
        BY <4>1, <4>2, Zenon
    <3>2. job[w].kind # "query"
      BY <2>8
    <3>3. FindAfter(w, t) = CASE t = Definition -> [step |-> "find", table |-> System]
                              [] t = System     -> [step |-> "find", table |-> Entry]
                              [] t = Entry      -> [step |-> "delete", table |-> Connection]
      BY <3>2, Zenon DEF FindAfter
    <3>4. t = Definition => at'[w].step = "find" /\ at'[w].table = System
      BY <2>3, <3>3, TableNames
    <3>5. Unregistering(w)'
      BY <1>4, <2>6, <3>1, <3>4, TableNames DEF Unregistering
    <3>6. QED
      BY <2>3, <2>8, <3>5 DEF Flow
  <2>9. QED
    BY <1>4, <2>7, <2>8, Zenon
<1>8. QED
  BY <1>6, <1>7, Zenon DEF Find

\* A DELETE takes rows away and changes none.
LEMMA DeletedRows ==
    ASSUME NEW t, NEW ids, DeleteRows(t, ids), NEW u \in Tables
    PROVE  /\ DOMAIN db'[u] = DOMAIN db[u] \ Deleted(t, ids, u)
           /\ \A i \in DOMAIN db'[u] : i \in DOMAIN db[u] /\ db'[u][i] = db[u][i]
<1>1. db'[u] = Without(u, Deleted(t, ids, u))
  BY Zenon DEF DeleteRows
<1>2. /\ DOMAIN Without(u, Deleted(t, ids, u)) = DOMAIN db[u] \ Deleted(t, ids, u)
      /\ \A i \in DOMAIN db[u] \ Deleted(t, ids, u) : Without(u, Deleted(t, ids, u))[i] = db[u][i]
  BY Zenon DEF Without
<1>3. QED
  BY <1>1, <1>2, Zenon

\* Deleting a service, a system, an entry or a connection deletes no row of
\* another of these tables but entries and connections.
LEMMA DeletedElsewhere ==
    ASSUME NEW t, NEW ids, NEW u, u \notin {t, Entry, Connection}
    PROVE  Deleted(t, ids, u) = {}
BY Zenon DEF Deleted

LEMMA DeleteSound ==
    ASSUME TablesSound, NEW t \in {Definition, System, Entry, Connection}, NEW ids,
           DeleteRows(t, ids)
    PROVE  TablesSound'
<1>1. Definition \in Tables /\ Interface \in Tables /\ Entry \in Tables /\ Connection \in Tables
  BY DEF Tables
<1>2. UriUnique'
  <2>1. \A i \in DOMAIN db'[Entry] : i \in DOMAIN db[Entry] /\ db'[Entry][i] = db[Entry][i]
    BY <1>1, DeletedRows, Zenon
  <2>2. QED
    BY <2>1, Zenon DEF TablesSound, UriUnique
<1>3. NamesUnique'
  <2>1. \A i \in DOMAIN db'[Definition] : /\ i \in DOMAIN db[Definition]
                                          /\ db'[Definition][i] = db[Definition][i]
    BY <1>1, DeletedRows, Zenon
  <2>2. QED
    BY <2>1, Zenon DEF TablesSound, NamesUnique
<1>4. InterfacesExist'
  <2>1. \A i \in DOMAIN db'[Connection] : /\ i \in DOMAIN db[Connection]
                                          /\ db'[Connection][i] = db[Connection][i]
    BY <1>1, DeletedRows, Zenon
  <2>2. Interface \notin {t, Entry, Connection}
    BY TableNames
  <2>3. Deleted(t, ids, Interface) = {}
    BY <2>2, DeletedElsewhere, Zenon
  <2>4. DOMAIN db'[Interface] = DOMAIN db[Interface]
    BY <1>1, <2>3, DeletedRows, Zenon
  <2>5. QED
    BY <2>1, <2>4, Zenon DEF TablesSound, InterfacesExist
<1>5. QED
  BY <1>2, <1>3, <1>4, Zenon DEF TablesSound

LEMMA DeleteInv ==
    ASSUME RegistryInv, NEW w \in Workers, Delete(w)
    PROVE  TablesSound' /\ Flow(w)'
<1> DEFINE t == at[w].table
<1>1. at[w].step = "delete" /\ job' = job /\ v' = v /\ DeleteRows(t, Doomed(w, t))
  BY Zenon DEF Delete
<1>2. at[w].step # "idle"
  BY <1>1
<1>3. StepOf(job[w], at[w]) /\ job[w] \in Requests
  BY <1>2, ServingFacts, Zenon DEF RegistryInv, RegistryTypes
<1>4. \/ job[w].kind = "delete" /\ t = job[w].table
      \/ job[w].kind = "unregister" /\ t \in {Connection, Entry}
  BY <1>1, <1>3 DEF StepOf, Storing
<1>5. t \in {Definition, System, Entry, Connection}
  BY <1>3, <1>4, RequestFields
<1>6. TablesSound'
  BY <1>1, <1>5, DeleteSound, Zenon DEF RegistryInv
<1>7. CASE job[w].kind = "delete"
  <2>1. job'[w].kind \notin {"register", "unregister", "query"}
    BY <1>1, <1>7
  <2>2. QED
    BY <1>6, <2>1, OtherFlow, Zenon
<1>8. CASE job[w].kind = "unregister" /\ t = Entry
  <2>1. Reply(w, "ok", {})
    BY <1>8, TableNames, Zenon DEF Delete
  <2>2. at'[w].step = "reply"
    BY <2>1, ReplyFields, Zenon DEF RegistryInv, RegistryTypes
  <2>3. QED
    BY <1>1, <1>6, <1>8, <2>2, RepliedFlow, Zenon
<1>9. CASE job[w].kind = "unregister" /\ t = Connection
  <2>1. Named(w) /\ Addressed(w)
    BY <1>1, <1>9, Zenon DEF RegistryInv, Flow, Unregistering
  <2>2. Definition \in Tables /\ System \in Tables
    BY DEF Tables
  <2>3. Definition \notin {t, Entry, Connection} /\ System \notin {t, Entry, Connection}
    BY <1>9, TableNames
  <2>4. /\ DOMAIN db'[Definition] = DOMAIN db[Definition]
        /\ DOMAIN db'[System] = DOMAIN db[System]
    <3>1. PICK ids : DeleteRows(t, ids)
      BY <1>1, Zenon
    <3>2. Deleted(t, ids, Definition) = {} /\ Deleted(t, ids, System) = {}
      BY <2>3, DeletedElsewhere, Zenon
    <3>3. /\ DOMAIN db'[Definition] = DOMAIN db[Definition] \ Deleted(t, ids, Definition)
          /\ DOMAIN db'[System] = DOMAIN db[System] \ Deleted(t, ids, System)
      BY <2>2, <3>1, DeletedRows, Zenon
    <3>4. QED
      BY <3>2, <3>3, Zenon
  <2>5. /\ \A i \in DOMAIN db'[Definition] : db'[Definition][i] = db[Definition][i]
        /\ \A i \in DOMAIN db'[System] : db'[System][i] = db[System][i]
    BY <1>1, <2>2, DeletedRows, Zenon
  <2>6. Named(w)' /\ Addressed(w)'
    BY <1>1, <2>1, <2>4, <2>5, Zenon DEF Named, Addressed
  <2>7. job'[w].kind = "unregister"
    BY <1>1, <1>9, Zenon
  <2>8. QED
    BY <1>6, <2>6, <2>7 DEF Flow, Unregistering
<1>10. QED
  BY <1>4, <1>7, <1>8, <1>9, Zenon

\* The name a PUT or a PATCH leaves is the one it was given or the old one.
LEMMA UpdatedName ==
    ASSUME NEW w, NEW t, NEW row, row = UpdatedRow(w, t), t = Definition,
           db[t][job[w].id] \in [name : STRING]
    PROVE  row.name \in {job[w].row.name, db[t][job[w].id].name}
<1>1. CASE job[w].kind = "put"
  BY <1>1, Zenon DEF UpdatedRow
<1>2. CASE job[w].kind # "put"
  <2>1. PICK old \in [name : STRING] : old = db[t][job[w].id]
    BY Zenon
  <2>2. row = [old EXCEPT !.name = Given(job[w].row.name, old.name)]
    BY <1>2, <2>1, Zenon DEF UpdatedRow
  <2>3. row.name = Given(job[w].row.name, old.name)
    BY <2>1, <2>2
  <2>4. QED
    BY <2>1, <2>3, Zenon DEF Given
<1>3. QED
  BY <1>1, <1>2, Zenon

\* PUT and PATCH change definitions and systems only.
LEMMA UpdateElsewhere ==
    ASSUME RegistryInv, NEW w \in Workers, Update(w)
    PROVE  /\ at[w].table \in {Definition, System}
           /\ db'[Entry] = db[Entry] /\ db'[Interface] = db[Interface]
           /\ db'[Connection] = db[Connection]
<1> DEFINE t == at[w].table
           id == job[w].id
<1>1. /\ at[w].step = "update"
      /\ db' = IF id \in DOMAIN db[t] THEN [db EXCEPT ![t][id] = UpdatedRow(w, t)] ELSE db
  BY Zenon DEF Update
<1>2. at[w].step # "idle"
  BY <1>1
<1>3. StepOf(job[w], at[w]) /\ job[w] \in Requests
  BY <1>2, ServingFacts, Zenon DEF RegistryInv, RegistryTypes
<1>4. job[w].kind \in {"put", "patch"} /\ t = job[w].table
  BY <1>1, <1>3 DEF StepOf, Storing
<1>5. t \in {Definition, System}
  BY <1>3, <1>4, RequestFields
<1>6. \A u \in Tables : u # t => db'[u] = db[u]
  BY <1>1, Zenon DEF RegistryInv, RegistryTypes, TablesOK
<1>7. QED
  BY <1>5, <1>6, TableNames DEF Tables

LEMMA UpdateInv ==
    ASSUME RegistryInv, NEW w \in Workers, Update(w)
    PROVE  TablesSound' /\ Flow(w)'
<1> DEFINE t == at[w].table
           id == job[w].id
<1>1. /\ at[w].step = "update" /\ job' = job /\ ~UpdateFails(w, t)
      /\ db' = IF id \in DOMAIN db[t] THEN [db EXCEPT ![t][id] = UpdatedRow(w, t)] ELSE db
  BY Zenon DEF Update
<1>2. at[w].step # "idle"
  BY <1>1
<1>3. StepOf(job[w], at[w]) /\ job[w] \in Requests
  BY <1>2, ServingFacts, Zenon DEF RegistryInv, RegistryTypes
<1>4. job[w].kind \in {"put", "patch"} /\ t = job[w].table
  BY <1>1, <1>3 DEF StepOf, Storing
<1>5. t \in {Definition, System}
  BY UpdateElsewhere, Zenon
<1>6. Flow(w)'
  <2>1. job'[w].kind \notin {"register", "unregister", "query"}
    BY <1>1, <1>4
  <2>2. QED
    BY <2>1, OtherFlow, Zenon
<1>7. CASE id \notin DOMAIN db[t]
  <2>1. db' = db
    BY <1>1, <1>7, Zenon
  <2>2. QED
    BY <1>6, <2>1, SoundKept, Zenon DEF RegistryInv
<1>8. CASE id \in DOMAIN db[t]
  <2>1. PICK row : row = UpdatedRow(w, t) /\ db' = [db EXCEPT ![t][id] = row]
    BY <1>1, <1>8, Zenon
  <2>2. DOMAIN db = Tables /\ db[t] \in [DOMAIN db[t] -> RowOf(t)]
    BY <1>5 DEF RegistryInv, RegistryTypes, TablesOK, Tables
  <2>3. \A u \in Tables : u # t => db'[u] = db[u]
    BY <2>1, <2>2, Zenon
  <2>4. db'[Entry] = db[Entry] /\ db'[Interface] = db[Interface] /\ db'[Connection] = db[Connection]
    BY UpdateElsewhere, Zenon
  <2>5. UriUnique' /\ InterfacesExist'
    BY <2>4, Zenon DEF RegistryInv, TablesSound, UriUnique, InterfacesExist
  <2>6. NamesUnique'
    <3>1. NamesUnique
      BY Zenon DEF RegistryInv, TablesSound
    <3>2. CASE t = System
      <4>1. db'[Definition] = db[Definition]
        BY <2>3, <3>2, TableNames DEF Tables
      <4>2. QED
        BY <3>1, <4>1, Zenon DEF NamesUnique
    <3>3. CASE t = Definition
      <4>1. Definition \in Tables
        BY DEF Tables
      <4>2. db'[Definition] = [db[Definition] EXCEPT ![id] = row]
        BY <2>1, <2>2, <3>3, <4>1, Zenon
      <4>3. /\ DOMAIN db'[Definition] = DOMAIN db[Definition]
            /\ db'[Definition][id] = row
            /\ \A i \in DOMAIN db[Definition] : i # id => db'[Definition][i] = db[Definition][i]
        BY <1>8, <3>3, <4>2, Zenon
      <4>4. db[t][id] \in [name : STRING]
        BY <1>8, <2>2, <3>3, RowTypes, Zenon
      <4>5. row.name \in {job[w].row.name, db[t][id].name}
        BY <2>1, <3>3, <4>4, UpdatedName, Zenon
      <4>6. \A i \in DOMAIN db[Definition] : i # id => db[Definition][i].name # job[w].row.name
        BY <1>1, <1>8, <3>3, Zenon DEF UpdateFails
      <4>7. \A i \in DOMAIN db[Definition] : i # id => db[Definition][i].name # row.name
        BY <1>8, <3>1, <3>3, <4>5, <4>6, Zenon DEF NamesUnique
      <4>8. QED
        BY <3>1, <4>3, <4>7, Zenon DEF NamesUnique
    <3>4. QED
      BY <1>5, <3>2, <3>3, Zenon
  <2>7. QED
    BY <1>6, <2>5, <2>6, Zenon DEF TablesSound
<1>9. QED
  BY <1>7, <1>8, Zenon

-----------------------------------------------------------------------------
(* Queries                                                                 *)

\* What a query ought to find is what it answers for the rows of its definition.
LEMMA RegisteredAnswers ==
    ASSUME NamesUnique, NEW w, Named(w), NEW required
    PROVE  Registered(job[w].service, required) = Filter({Answer(e) : e \in Result(w)}, required)
<1> DEFINE E == EntriesOf({v[w].service}, {})
           R(i) == [uri |-> db[Entry][i].uri, names |-> NamesOf(InterfacesOf(i)),
                    system |-> db[System][db[Entry][i].system]]
<1>1. {i \in DOMAIN db[Definition] : db[Definition][i].name = job[w].service} = {v[w].service}
  BY Zenon DEF NamesUnique, Named
<1>2. Registered(job[w].service, required) = Filter({R(i) : i \in E}, required)
  BY <1>1, Zenon DEF Registered
<1>3. \A i : Answer([id |-> i, row |-> db[Entry][i]]) = R(i)
  BY DEF Answer
<1>4. {R(i) : i \in E} = {Answer(e) : e \in Result(w)}
  BY <1>3, Zenon DEF Result
<1>5. QED
  BY <1>2, <1>4, Zenon

\* The rows of the definition, as the SELECT finds them.
LEMMA ResultRows ==
    ASSUME NEW w
    PROVE  /\ EntriesOf({v[w].service}, {})
                = {i \in DOMAIN db[Entry] : db[Entry][i].service = v[w].service}
           /\ \A e \in Result(w) : /\ e.id \in DOMAIN db[Entry]
                                   /\ e.row = db[Entry][e.id]
<1>1. EntriesOf({v[w].service}, {})
        = {i \in DOMAIN db[Entry] : db[Entry][i].service = v[w].service}
  BY Zenon DEF EntriesOf
<1>2. ASSUME NEW e \in Result(w) PROVE e.id \in DOMAIN db[Entry] /\ e.row = db[Entry][e.id]
  <2>1. PICK i \in EntriesOf({v[w].service}, {}) : e = [id |-> i, row |-> db[Entry][i]]
    BY Zenon DEF Result
  <2>2. i \in DOMAIN db[Entry]
    BY Zenon DEF EntriesOf
  <2>3. e.id = i /\ e.row = db[Entry][i]
    BY <2>1
  <2>4. QED
    BY <2>2, <2>3, Zenon
<1>3. QED
  BY <1>1, <1>2, Zenon

\* What a query reads is the same as long as the tables and its definition are.
LEMMA QueryKept ==
    ASSUME NEW w, db' = db, job' = job, v'[w].service = v[w].service
    PROVE  /\ Named(w)' <=> Named(w)
           /\ Result(w)' = Result(w)
           /\ \A i : InterfacesOf(i)' = InterfacesOf(i)
           /\ \A ids : NamesOf(ids)' = NamesOf(ids)
           /\ \A e : Answer(e)' = Answer(e)
           /\ (\A i \in DOMAIN db[Entry] : Whole(i))' <=> \A i \in DOMAIN db[Entry] : Whole(i)
           /\ Registered(job[w].service, job[w].required)'
                = Registered(job[w].service, job[w].required)
<1>1. Named(w)' <=> Named(w)
  BY Zenon DEF Named
<1>2. /\ \A e : ConnectionsOf(e)' = ConnectionsOf(e)
      /\ \A s, t : EntriesOf(s, t)' = EntriesOf(s, t)
      /\ \A ids : NamesOf(ids)' = NamesOf(ids)
  BY Zenon DEF ConnectionsOf, EntriesOf, NamesOf
<1>3. \A i : InterfacesOf(i)' = InterfacesOf(i)
  BY <1>2, Zenon DEF InterfacesOf
<1>4. Result(w)' = Result(w)
  BY <1>2, Zenon DEF Result
<1>5. \A e : Answer(e)' = Answer(e)
  BY <1>2, <1>3, Zenon DEF Answer
<1>6. (\A i \in DOMAIN db[Entry] : Whole(i))' <=> \A i \in DOMAIN db[Entry] : Whole(i)
  BY <1>3, Zenon DEF Whole
<1>7. Registered(job[w].service, job[w].required)' = Registered(job[w].service, job[w].required)
  BY <1>2, <1>3, Zenon DEF Registered, Filter
<1>8. QED
  BY <1>1, <1>2, <1>3, <1>4, <1>5, <1>6, <1>7, Zenon

\* An empty reply is exact when there is nothing to find, or a row is broken.
LEMMA EmptyIsExact ==
    ASSUME RegistryInv, NEW w \in Workers, Named(w), db' = db, job' = job, v' = v,
           Reply(w, "ok", {}), job[w].kind = "query",
           Result(w) = {} \/ \E i \in DOMAIN db[Entry] : ~Whole(i)
    PROVE  Flow(w)'
<1>1. at'[w].step = "reply" /\ reply'[w].status = "ok" /\ reply'[w].found = {}
  BY ReplyFields, Zenon DEF RegistryInv, RegistryTypes
<1>2. CASE Result(w) = {}
  <2>1. {Answer(e) : e \in Result(w)} = {}
    BY <1>2, Zenon
  <2>2. Registered(job[w].service, job[w].required) = {}
    <3>1. Filter({}, job[w].required) = {}
      BY Zenon DEF Filter
    <3>2. Registered(job[w].service, job[w].required)
            = Filter({Answer(e) : e \in Result(w)}, job[w].required)
      BY RegisteredAnswers, Zenon DEF RegistryInv, TablesSound
    <3>3. QED
      BY <2>1, <3>1, <3>2, Zenon
  <2>3. Exact(w)'
    BY <1>1, <2>2, QueryKept, Zenon DEF Exact
  <2>4. QED
    BY <1>1, <2>3, RepliedFlow, Zenon
<1>3. CASE \E i \in DOMAIN db[Entry] : ~Whole(i)
  <2>1. ~(\A i \in DOMAIN db[Entry] : Whole(i))'
    BY <1>3, QueryKept, Zenon
  <2>2. Exact(w)'
    BY <2>1, Zenon DEF Exact
  <2>3. QED
    BY <1>1, <2>2, RepliedFlow, Zenon
<1>4. QED
  BY <1>2, <1>3, Zenon

\* A worker that is at one of the statements of a query.
LEMMA QueryStep ==
    ASSUME RegistryInv, NEW w \in Workers, at[w].step \in {"entries", "connections", "provider"}
    PROVE  /\ job[w].kind = "query" /\ v[w] \in LocalVariables /\ Named(w)
           /\ at[w].step # "entries" => v[w].rows # {}
           /\ Querying(w)
<1>1. at[w].step # "idle"
  OBVIOUS
<1>2. /\ StepOf(job[w], at[w]) /\ v[w] \in LocalVariables
      /\ at[w].step \in {"connections", "provider"} => v[w].rows # {}
  BY <1>1, ServingFacts, Zenon DEF RegistryInv, RegistryTypes
<1>3. job[w].kind = "query"
  BY <1>2 DEF StepOf, Storing
<1>4. Querying(w)
  BY <1>3, Zenon DEF RegistryInv, Flow
<1>5. Named(w)
  BY <1>4, Zenon DEF Querying
<1>6. QED
  BY <1>2, <1>3, <1>4, <1>5, Zenon

LEMMA EntriesFlow ==
    ASSUME RegistryInv, NEW w \in Workers, Entries(w)
    PROVE  Flow(w)'
<1> DEFINE ids == {i \in DOMAIN db[Entry] : db[Entry][i].service = v[w].service}
           rows == {[id |-> i, row |-> db[Entry][i]] : i \in ids}
<1>1. at[w].step = "entries" /\ db' = db /\ job' = job
  BY Zenon DEF Entries
<1>2. job[w].kind = "query" /\ v[w] \in LocalVariables /\ Named(w) /\ Querying(w)
  BY <1>1, QueryStep, Zenon
<1>3. rows = Result(w)
  BY ResultRows, Zenon DEF Result
<1>4. CASE ids = {} /\ Reply(w, "ok", {}) /\ v' = v
  <2>1. Result(w) = {}
    BY <1>3, <1>4, Zenon
  <2>2. QED
    BY <1>1, <1>2, <1>4, <2>1, EmptyIsExact, Zenon
<1>5. CASE v' = [v EXCEPT ![w].rows = rows] /\ Goto(w, "connections", Connection)
  <2>1. v'[w] = [v[w] EXCEPT !.rows = rows]
    BY <1>5, Zenon DEF RegistryInv, RegistryTypes, WorkersOK
  <2>2. v'[w].rows = rows /\ v'[w].service = v[w].service /\ v'[w].found = v[w].found
    BY <1>2, <2>1 DEF LocalVariables
  <2>3. at'[w].step = "connections"
    BY <1>5, Zenon DEF Goto, RegistryInv, RegistryTypes, WorkersOK
  <2>4. Named(w)' /\ Result(w)' = Result(w)
    BY <1>1, <1>2, <2>2, QueryKept, Zenon
  <2>5. v[w].found = {}
    BY <1>1, <1>2, Zenon DEF Querying
  <2>6. v'[w].rows = Result(w)'
    BY <1>3, <2>2, <2>4, Zenon
  <2>7. v'[w].found = {Answer(e) : e \in Result(w) \ v[w].rows}'
    BY <2>2, <2>5, <2>6, Zenon
  <2>8. Querying(w)'
    BY <2>3, <2>4, <2>6, <2>7 DEF Querying
  <2>9. job'[w].kind = "query"
    BY <1>1, <1>2, Zenon
  <2>10. QED
    BY <2>8, <2>9 DEF Flow
<1>6. QED
  BY <1>4, <1>5, Zenon DEF Entries

LEMMA ConnectionsFlow ==
    ASSUME RegistryInv, NEW w \in Workers, Connections(w)
    PROVE  Flow(w)'
<1> DEFINE e == Current(w)
           ids == InterfacesOf(e.id)
<1>1. at[w].step = "connections" /\ db' = db /\ job' = job
  BY Zenon DEF Connections
<1>2. /\ job[w].kind = "query" /\ v[w] \in LocalVariables /\ Named(w) /\ Querying(w)
      /\ v[w].rows # {}
  BY <1>1, QueryStep
<1>3. e \in v[w].rows /\ v[w].rows \subseteq Result(w)
  BY <1>1, <1>2, Zenon DEF Current, Querying
<1>4. e.id \in DOMAIN db[Entry]
  BY <1>3, ResultRows, Zenon
<1>5. ids \subseteq DOMAIN db[Interface]
  BY Zenon DEF RegistryInv, TablesSound, InterfacesExist, InterfacesOf, ConnectionsOf
<1>6. CASE ids = {} /\ Reply(w, "ok", {}) /\ v' = v
  <2>1. ~Whole(e.id)
    BY <1>6, Zenon DEF Whole
  <2>2. QED
    BY <1>1, <1>2, <1>4, <1>6, <2>1, EmptyIsExact, Zenon
<1>7. CASE v' = [v EXCEPT ![w].names = NamesOf(ids)] /\ Goto(w, "provider", System)
  <2>1. v'[w] = [v[w] EXCEPT !.names = NamesOf(ids)]
    BY <1>7, Zenon DEF RegistryInv, RegistryTypes, WorkersOK
  <2>2. /\ v'[w].names = NamesOf(ids) /\ v'[w].service = v[w].service
        /\ v'[w].found = v[w].found /\ v'[w].rows = v[w].rows
    BY <1>2, <2>1 DEF LocalVariables
  <2>3. at'[w].step = "provider"
    BY <1>7, Zenon DEF Goto, RegistryInv, RegistryTypes, WorkersOK
  <2>4. /\ Named(w)' /\ Result(w)' = Result(w)
        /\ \A i : InterfacesOf(i)' = InterfacesOf(i)
        /\ \A s : NamesOf(s)' = NamesOf(s)
        /\ \A x : Answer(x)' = Answer(x)
    BY <1>1, <1>2, <2>2, QueryKept, Zenon
  <2>5. Current(w)' = e
    BY <2>2, Zenon DEF Current
  <2>6. NamesOf(InterfacesOf(Current(w).id))' = NamesOf(ids)
    BY <2>4, <2>5, Zenon
  <2>7. v[w].found = {Answer(x) : x \in Result(w) \ v[w].rows}
    BY <1>1, <1>2, Zenon DEF Querying
  <2>8. v'[w].found = {Answer(x) : x \in Result(w) \ v[w].rows}'
    BY <2>2, <2>4, <2>7, Zenon
  <2>9. Querying(w)'
    BY <1>3, <2>2, <2>3, <2>4, <2>6, <2>8 DEF Querying
  <2>10. job'[w].kind = "query"
    BY <1>1, <1>2, Zenon
  <2>11. QED
    BY <2>9, <2>10 DEF Flow
<1>8. QED
  BY <1>5, <1>6, <1>7, Zenon DEF Connections

LEMMA ProviderFlow ==
    ASSUME RegistryInv, NEW w \in Workers, Provider(w)
    PROVE  Flow(w)'
<1> DEFINE e == Current(w)
           rest == v[w].rows \ {e}
           found == v[w].found \cup {[uri |-> e.row.uri, names |-> v[w].names,
                                      system |-> db[System][e.row.system]]}
<1>1. at[w].step = "provider" /\ db' = db /\ job' = job
  BY Zenon DEF Provider
<1>2. /\ job[w].kind = "query" /\ v[w] \in LocalVariables /\ Named(w) /\ Querying(w)
      /\ v[w].rows # {}
  BY <1>1, QueryStep
<1>3. e \in v[w].rows /\ v[w].rows \subseteq Result(w)
  BY <1>1, <1>2, Zenon DEF Current, Querying
<1>4. e.id \in DOMAIN db[Entry] /\ e.row = db[Entry][e.id]
  BY <1>3, ResultRows, Zenon
<1>5. CASE e.row.system \notin DOMAIN db[System] /\ Reply(w, "ok", {}) /\ v' = v
  <2>1. ~Whole(e.id)
    BY <1>4, <1>5, Zenon DEF Whole
  <2>2. QED
    BY <1>1, <1>2, <1>4, <1>5, <2>1, EmptyIsExact, Zenon
<1>6. CASE /\ v' = [v EXCEPT ![w].rows = rest, ![w].found = found]
           /\ IF rest = {} THEN Reply(w, "ok", Filter(found, job[w].required))
                           ELSE Goto(w, "connections", Connection) /\ UNCHANGED reply
  <2>1. v'[w] = [v[w] EXCEPT !.rows = rest, !.found = found]
    BY <1>6, Zenon DEF RegistryInv, RegistryTypes, WorkersOK
  <2>2. v'[w].rows = rest /\ v'[w].found = found /\ v'[w].service = v[w].service
    BY <1>2, <2>1 DEF LocalVariables
  <2>3. [uri |-> e.row.uri, names |-> v[w].names, system |-> db[System][e.row.system]] = Answer(e)
    BY <1>1, <1>2, Zenon DEF Querying, Answer
  <2>4. v[w].found = {Answer(x) : x \in Result(w) \ v[w].rows}
    BY <1>1, <1>2, Zenon DEF Querying
  <2>5. found = {Answer(x) : x \in Result(w) \ rest}
    BY <1>3, <2>3, <2>4, Zenon
  <2>6. /\ Named(w)' /\ Result(w)' = Result(w)
        /\ \A x : Answer(x)' = Answer(x)
    BY <1>1, <1>2, <2>2, QueryKept, Zenon
  <2>7. CASE rest = {}
    <3>1. /\ at'[w].step = "reply"
          /\ reply'[w].found = Filter(found, job[w].required)
      <4>1. PICK all : all = Filter(found, job[w].required) /\ Reply(w, "ok", all)
        BY <1>6, <2>7, Zenon
      <4>2. WorkersOK /\ Reply(w, "ok", all)
        BY <4>1, Zenon DEF RegistryInv, RegistryTypes
      <4>3. at'[w].step = "reply" /\ reply'[w].found = all
        BY <4>2, ReplyFields, Zenon
      <4>4. QED
        BY <4>1, <4>3, Zenon
    <3>2. found = {Answer(x) : x \in Result(w)}
      BY <2>5, <2>7, Zenon
    <3>3. Registered(job[w].service, job[w].required)
            = Filter({Answer(x) : x \in Result(w)}, job[w].required)
      BY <1>2, RegisteredAnswers, Zenon DEF RegistryInv, TablesSound
    <3>4. Registered(job[w].service, job[w].required)'
            = Registered(job[w].service, job[w].required)
      BY <1>1, <2>2, QueryKept, Zenon
    <3>5. reply'[w].found = Registered(job[w].service, job[w].required)'
      BY <3>1, <3>2, <3>3, <3>4, Zenon
    <3>6. Exact(w)'
      BY <3>5, Zenon DEF Exact
    <3>7. QED
      BY <1>1, <1>2, <3>1, <3>6, RepliedFlow, Zenon
  <2>8. CASE rest # {}
    <3>1. at'[w].step = "connections"
      <4>1. Goto(w, "connections", Connection)
        BY <1>6, <2>8, Zenon
      <4>2. QED
        BY <4>1, Zenon DEF Goto, RegistryInv, RegistryTypes, WorkersOK
    <3>2. v'[w].found = {Answer(x) : x \in Result(w) \ v[w].rows}'
      BY <2>2, <2>5, <2>6, Zenon
    <3>3. v'[w].rows \subseteq Result(w)'
      BY <1>3, <2>2, <2>6, Zenon
    <3>4. Querying(w)'
      BY <2>6, <3>1, <3>2, <3>3 DEF Querying
    <3>5. job'[w].kind = "query"
      BY <1>1, <1>2, Zenon
    <3>6. QED
      BY <3>4, <3>5 DEF Flow
  <2>9. QED
    BY <2>7, <2>8, Zenon
<1>7. QED
  BY <1>5, <1>6, Zenon DEF Provider

LEMMA UnexecutedFlow ==
    ASSUME RegistryInv, NEW w \in Workers, Unexecuted(w)
    PROVE  Flow(w)'
<1>1. /\ db' = db /\ job' = job /\ FetchesRows(w)
      /\ v' = [v EXCEPT ![w].unread = TRUE]
      /\ Reply(w, IF at[w].step \in {"select", "find"} THEN "error" ELSE "ok", {})
  BY Zenon DEF Unexecuted
<1>2. at[w].step # "idle"
  BY <1>1 DEF FetchesRows
<1>3. StepOf(job[w], at[w]) /\ v[w] \in LocalVariables
  BY <1>2, ServingFacts, Zenon DEF RegistryInv, RegistryTypes
<1>4. v'[w] = [v[w] EXCEPT !.unread = TRUE]
  BY <1>1, Zenon DEF RegistryInv, RegistryTypes, WorkersOK
<1>5. v'[w].unread /\ v'[w].interfaces = v[w].interfaces
  BY <1>3, <1>4 DEF LocalVariables
<1>6. /\ at'[w].step = "reply"
      /\ reply'[w].status = IF at[w].step \in {"select", "find"} THEN "error" ELSE "ok"
  BY <1>1, ReplyFields, Zenon DEF RegistryInv, RegistryTypes
<1>7. CASE job[w].kind \notin {"register", "unregister", "query"}
  <2>1. job'[w].kind \notin {"register", "unregister", "query"}
    BY <1>1, <1>7, Zenon
  <2>2. QED
    BY <2>1, OtherFlow, Zenon
<1>8. CASE job[w].kind \in {"unregister", "query"}
  <2>1. Exact(w)'
    BY <1>5, Zenon DEF Exact
  <2>2. QED
    BY <1>1, <1>6, <1>8, <2>1, RepliedFlow, Zenon
<1>9. CASE job[w].kind = "register"
  <2>1. at[w].step = "select"
    BY <1>1, <1>3, <1>9 DEF FetchesRows, StepOf, Storing
  <2>2. ~PastEntry(w)'
    BY <1>6, <2>1 DEF PastEntry, Storing
  <2>3. \A n \in DOMAIN v[w].interfaces : v[w].interfaces[n] \in DOMAIN db[Interface]
    BY <1>9, Zenon DEF RegistryInv, Flow, Registering
  <2>4. Registering(w)'
    BY <1>1, <1>5, <1>6, <2>2, <2>3 DEF Registering, PastConnection
  <2>5. job'[w].kind = "register"
    BY <1>1, <1>9, Zenon
  <2>6. QED
    BY <2>4, <2>5 DEF Flow
<1>10. QED
  BY <1>7, <1>8, <1>9, Zenon

\* Nothing that Flow is about changes.
LEMMA FlowKept ==
    ASSUME NEW w, Flow(w), db' = db, job' = job, at' = at, v' = v, reply' = reply
    PROVE  Flow(w)'
<1>1. /\ \A t : Matching(w, t)' = Matching(w, t)
      /\ ConnectionsOf({v[w].entry})' = ConnectionsOf({v[w].entry})
  BY MatchingKept, Zenon DEF ConnectionsOf
<1>2. (PastEntry(w)' <=> PastEntry(w)) /\ (PastConnection(w)' <=> PastConnection(w))
  BY DEF PastEntry, PastConnection
<1>3. Registering(w) => Registering(w)'
  BY <1>1, <1>2 DEF Registering
<1>4. Unregistering(w) => Unregistering(w)'
  BY DEF Unregistering, Named, Addressed
<1>5. v'[w].service = v[w].service
  OBVIOUS
<1>6. /\ Named(w)' <=> Named(w)
      /\ Result(w)' = Result(w)
      /\ \A i : InterfacesOf(i)' = InterfacesOf(i)
      /\ \A ids : NamesOf(ids)' = NamesOf(ids)
      /\ \A e : Answer(e)' = Answer(e)
      /\ (\A i \in DOMAIN db[Entry] : Whole(i))' <=> \A i \in DOMAIN db[Entry] : Whole(i)
      /\ Registered(job[w].service, job[w].required)'
           = Registered(job[w].service, job[w].required)
  BY <1>5, QueryKept, Zenon
<1>7. Exact(w)' <=> Exact(w)
  BY <1>6, Zenon DEF Exact
<1>8. Current(w)' = Current(w)
  BY Zenon DEF Current
<1>9. NamesOf(InterfacesOf(Current(w).id))' = NamesOf(InterfacesOf(Current(w).id))
  BY <1>6, <1>8, Zenon
<1>10. {Answer(e) : e \in Result(w) \ v[w].rows}' = {Answer(e) : e \in Result(w) \ v[w].rows}
  BY <1>6, Zenon
<1>11. Querying(w) => Querying(w)'
  BY <1>6, <1>7, <1>9, <1>10, Zenon DEF Querying
<1>12. QED
  BY <1>3, <1>4, <1>11 DEF Flow

\* A step of the only worker keeps the tables sound and the worker in its flow.
LEMMA WorkInv ==
    ASSUME RegistryInv, NEW w \in Workers, Work(w)
    PROVE  TablesSound' /\ Flow(w)'
<1>1. RegistryTypes /\ TablesSound
  BY Zenon DEF RegistryInv
<1>2. CASE Start(w)
  <2>1. db' = db
    BY <1>2, Zenon DEF Start
  <2>2. QED
    BY <1>1, <1>2, <2>1, StartFlow, SoundKept, Zenon
<1>3. CASE Reject(w)
  <2>1. db' = db /\ job' = job /\ at[w].step = "reject"
    BY <1>3, Zenon DEF Reject
  <2>2. at[w].step # "idle"
    BY <2>1
  <2>3. StepOf(job[w], at[w])
    BY <1>1, <2>2, ServingFacts, Zenon DEF RegistryTypes
  <2>4. job'[w].kind \notin {"register", "unregister", "query"}
    BY <2>1, <2>3 DEF StepOf, Storing
  <2>5. QED
    BY <1>1, <2>1, <2>4, OtherFlow, SoundKept, Zenon
<1>4. CASE Done(w)
  <2>1. db' = db
    BY <1>4, Zenon DEF Done
  <2>2. job'[w] = NoJob
    BY <1>1, <1>4, Zenon DEF Done, RegistryTypes, WorkersOK
  <2>3. job'[w].kind \notin {"register", "unregister", "query"}
    BY <2>2 DEF NoJob
  <2>4. QED
    BY <1>1, <2>1, <2>3, OtherFlow, SoundKept, Zenon
<1>5. CASE Check(w) \/ Recheck(w) \/ Select(w)
  <2>1. db' = db
    BY <1>5, Zenon DEF Check, Recheck, Select
  <2>2. QED
    BY <1>1, <1>5, <2>1, CheckFlow, RecheckFlow, SelectFlow, SoundKept, Zenon
<1>6. CASE Find(w) \/ Entries(w) \/ Connections(w) \/ Provider(w)
  <2>1. db' = db
    BY <1>6, Zenon DEF Find, Entries, Connections, Provider
  <2>2. QED
    BY <1>1, <1>6, <2>1, FindFlow, EntriesFlow, ConnectionsFlow, ProviderFlow, SoundKept, Zenon
<1>7. CASE Insert(w) \/ Delete(w) \/ Update(w)
  BY <1>7, InsertInv, DeleteInv, UpdateInv, Zenon
<1>8. QED
  BY <1>2, <1>3, <1>4, <1>5, <1>6, <1>7, Zenon DEF Work

LEMMA RegistryInit == Init => RegistryInv
<1> SUFFICES ASSUME Init PROVE RegistryInv
  OBVIOUS
<1>1. RegistryTypes
  BY InitTyped, Zenon
<1>2. \A t \in Tables : DOMAIN db[t] = {}
  <2>1. DOMAIN <<>> = {}
    OBVIOUS
  <2>2. QED
    BY <2>1, Zenon DEF Init
<1>3. TablesSound
  <2>1. Definition \in Tables /\ Entry \in Tables /\ Connection \in Tables
    BY DEF Tables
  <2>2. QED
    BY <1>2, <2>1, Zenon DEF TablesSound, UriUnique, NamesUnique, InterfacesExist
<1>4. ASSUME NEW w \in Workers PROVE Flow(w)
  <2>1. job[w] = NoJob
    BY Zenon DEF Init
  <2>2. job[w].kind \notin {"register", "unregister", "query"}
    BY <2>1 DEF NoJob
  <2>3. QED
    BY <2>2, Zenon DEF Flow
<1>5. QED
  BY <1>1, <1>3, <1>4, Zenon DEF RegistryInv

LEMMA RegistryStep ==
    ASSUME OneWorker, RegistryInv, [Next]_vars
    PROVE  RegistryInv'
<1>1. RegistryTypes'
  BY NextTyped, Zenon DEF RegistryInv
<1>2. TablesSound /\ \A w \in Workers : Flow(w)
  BY Zenon DEF RegistryInv
<1>3. ASSUME NEW w \in Workers, Work(w) \/ Unexecuted(w)
      PROVE  RegistryInv'
  <2>1. TablesSound' /\ Flow(w)'
    <3>1. CASE Work(w)
      BY <3>1, WorkInv, Zenon
    <3>2. CASE Unexecuted(w)
      <4>1. db' = db
        BY <3>2, Zenon DEF Unexecuted
      <4>2. QED
        BY <1>2, <3>2, <4>1, UnexecutedFlow, SoundKept, Zenon
    <3>3. QED
      BY <1>3, <3>1, <3>2, Zenon
  <2>2. QED
    BY <1>1, <2>1, AllWorkers, Zenon DEF RegistryInv
<1>4. ASSUME NEW w \in Workers, Throw(w)
      PROVE  RegistryInv'
  <2>1. db' = db /\ job' = [u \in Workers |-> NoJob]
    BY <1>4, Zenon DEF Throw
  <2>2. job'[w] = NoJob
    BY <2>1, Zenon
  <2>3. job'[w].kind \notin {"register", "unregister", "query"}
    BY <2>2 DEF NoJob
  <2>4. TablesSound' /\ Flow(w)'
    BY <1>2, <2>1, <2>3, OtherFlow, SoundKept, Zenon
  <2>5. QED
    BY <1>1, <2>4, AllWorkers, Zenon DEF RegistryInv
<1>5. CASE Reboot \/ UNCHANGED vars
  <2>1. db' = db /\ job' = job /\ at' = at /\ v' = v /\ reply' = reply
    BY <1>5, Zenon DEF Reboot, vars
  <2>2. \A w \in Workers : Flow(w)'
    BY <1>2, <2>1, FlowKept, Zenon
  <2>3. TablesSound'
    BY <1>2, <2>1, SoundKept, Zenon
  <2>4. QED
    BY <1>1, <2>2, <2>3, Zenon DEF RegistryInv
<1>6. QED
  BY <1>3, <1>4, <1>5, Zenon DEF Next, Quiet

LEMMA RegistryInvAlways ==
    ASSUME OneWorker
    PROVE  Spec => []RegistryInv
<1>1. RegistryInv /\ [Next]_vars => RegistryInv'
  BY RegistryStep
<1>2. QED
  BY <1>1, RegistryInit, PTL DEF Spec

(* With one worker no two rows of service_registry ever have the same service
   URI, whatever requests come and wherever the process ends: each registration
   looks before it inserts (Register.h:138-146) and nobody inserts in between. *)
THEOREM UrisStayUnique == OneWorker => (Spec => []UriUnique)
<1> SUFFICES ASSUME OneWorker PROVE Spec => []UriUnique
  OBVIOUS
<1>1. RegistryInv => UriUnique
  BY Zenon DEF RegistryInv, TablesSound
<1>2. QED
  BY <1>1, RegistryInvAlways, PTL

(* With one worker a registration that replies with success leaves an entry with
   its URI and at least one interface (Register.h:150-170), also when the entry
   was left behind by a registration that did not end. *)
THEOREM RegistrationIsUsable == OneWorker => (Spec => []RegisteredIsUsable)
<1> SUFFICES ASSUME OneWorker PROVE Spec => []RegisteredIsUsable
  OBVIOUS
<1>1. RegistryInv => RegisteredIsUsable
  <2> SUFFICES ASSUME RegistryInv, NEW w \in Workers,
                      reply[w].status = "ok", job[w].kind = "register"
               PROVE  /\ v[w].entry \in DOMAIN db[Entry]
                      /\ db[Entry][v[w].entry].uri = job[w].uri
                      /\ InterfacesOf(v[w].entry) # {}
    BY Zenon DEF RegisteredIsUsable
  <2>1. Registering(w)
    BY Zenon DEF RegistryInv, Flow
  <2>2. reply[w] # NoReply
    BY DEF NoReply
  <2>3. Serving(job[w], at[w], v[w], reply[w])
    BY <2>2, Zenon DEF RegistryInv, RegistryTypes, WorkersOK, WorkerOK
  <2>4. at[w].step = "reply"
    BY <2>2, <2>3, Zenon DEF Serving
  <2>5. PastEntry(w) /\ PastConnection(w)
    BY <2>4 DEF PastEntry, PastConnection, Storing
  <2>6. QED
    BY <2>1, <2>5, Zenon DEF Registering, InterfacesOf
<1>2. QED
  BY <1>1, RegistryInvAlways, PTL

(* With one worker a query whose SELECTs were all executed replies with exactly
   the registered providers of the service while every entry is whole
   (SRQuery.h:71-184): each provider once, with its interfaces and its system. *)
THEOREM QueriesAreExact == OneWorker => (Spec => []QueryExact)
<1> SUFFICES ASSUME OneWorker PROVE Spec => []QueryExact
  OBVIOUS
<1>1. RegistryInv => QueryExact
  <2> SUFFICES ASSUME RegistryInv, NEW w \in Workers,
                      reply[w].status = "ok", job[w].kind = "query", ~v[w].unread,
                      \A i \in DOMAIN db[Entry] : Whole(i)
               PROVE  reply[w].found = Registered(job[w].service, job[w].required)
    BY Zenon DEF QueryExact
  <2>1. Querying(w)
    BY Zenon DEF RegistryInv, Flow
  <2>2. reply[w] # NoReply
    BY DEF NoReply
  <2>3. Serving(job[w], at[w], v[w], reply[w])
    BY <2>2, Zenon DEF RegistryInv, RegistryTypes, WorkersOK, WorkerOK
  <2>4. at[w].step = "reply"
    BY <2>2, <2>3, Zenon DEF Serving
  <2>5. QED
    BY <2>1, <2>4, Zenon DEF Querying, Exact
<1>2. QED
  BY <1>1, RegistryInvAlways, PTL

-----------------------------------------------------------------------------
(* Unregistering                                                           *)

\* The entries that go when unregister deletes.
LEMMA UnregisteredRows ==
    ASSUME NEW w, job[w].kind # "delete", NEW t \in {Connection, Entry}
    PROVE  Deleted(t, Doomed(w, t), Entry) = IF t = Entry THEN Sought(w, Entry) ELSE {}
<1>1. CASE t = Entry
  <2>1. Doomed(w, t) = Sought(w, Entry)
    BY <1>1, TableNames, Zenon DEF Doomed
  <2>2. \A ids : Deleted(Entry, ids, Entry) = ids
    BY TableNames, Zenon DEF Deleted
  <2>3. QED
    BY <1>1, <2>1, <2>2, Zenon
<1>2. CASE t = Connection
  <2>1. \A ids : Deleted(Connection, ids, Entry) = {}
    BY TableNames, Zenon DEF Deleted
  <2>2. QED
    BY <1>2, <2>1, TableNames, Zenon
<1>3. QED
  BY <1>1, <1>2, Zenon

\* Steps of a worker that leave all entries where they are.
LEMMA EntriesStay ==
    ASSUME RegistryInv, NEW w \in Workers, Work(w) \/ Unexecuted(w) \/ Throw(w), ~Delete(w)
    PROVE  DOMAIN db[Entry] \subseteq DOMAIN db'[Entry]
<1>1. CASE Insert(w)
  <2>1. Entry \in Tables
    BY DEF Tables
  <2>2. QED
    BY <1>1, <2>1, InsertKeeps, Zenon
<1>2. CASE Update(w)
  BY <1>2, UpdateElsewhere, Zenon
<1>3. CASE ~Insert(w) /\ ~Update(w)
  <2>1. db' = db
    BY <1>3, Zenon DEF Work, Unexecuted, Throw, Start, Reject, Check, Recheck, Select, Find,
                       Entries, Connections, Provider, Done
  <2>2. QED
    BY <2>1, Zenon
<1>4. QED
  BY <1>1, <1>2, <1>3, Zenon

LEMMA UnregisterStep ==
    ASSUME OneWorker, RegistryInv, [Next]_vars, NEW w \in Workers, job[w].kind = "unregister",
           NEW i \in DOMAIN db[Entry], ~Belongs(i, job[w])
    PROVE  i \in DOMAIN db'[Entry]
<1>1. CASE Delete(w)
  <2> DEFINE t == at[w].table
  <2>1. at[w].step = "delete" /\ DeleteRows(t, Doomed(w, t))
    BY <1>1, Zenon DEF Delete
  <2>2. at[w].step # "idle" /\ job[w].kind # "delete"
    BY <2>1
  <2>3. StepOf(job[w], at[w])
    BY <2>2, ServingFacts, Zenon DEF RegistryInv, RegistryTypes
  <2>4. t \in {Connection, Entry}
    BY <2>1, <2>3 DEF StepOf, Storing
  <2>5. i \notin Sought(w, Entry)
    <3> SUFFICES ASSUME i \in Sought(w, Entry) PROVE Belongs(i, job[w])
      BY Zenon
    <3>1. Named(w) /\ Addressed(w)
      BY <2>1, Zenon DEF RegistryInv, Flow, Unregistering
    <3>2. db[Entry][i].service = v[w].service /\ db[Entry][i].system = v[w].system
      BY SoughtRows, Zenon
    <3>3. QED
      BY <3>1, <3>2, Zenon DEF Named, Addressed, Belongs
  <2>6. PICK ids : ids = Doomed(w, t) /\ DeleteRows(t, ids)
    BY <2>1, Zenon
  <2>7. i \notin Deleted(t, ids, Entry)
    BY <2>2, <2>4, <2>5, <2>6, UnregisteredRows, Zenon
  <2>8. DOMAIN db'[Entry] = DOMAIN db[Entry] \ Deleted(t, ids, Entry)
    <3>1. Entry \in Tables /\ DeleteRows(t, ids)
      BY <2>6 DEF Tables
    <3>2. QED
      BY <3>1, DeletedRows, Zenon
  <2>9. QED
    BY <2>7, <2>8, Zenon
<1>2. CASE ~Delete(w)
  <2>1. ASSUME NEW u \in Workers, Work(u) \/ Unexecuted(u) \/ Throw(u)
        PROVE  i \in DOMAIN db'[Entry]
    <3>1. u = w
      BY Zenon DEF OneWorker
    <3>2. QED
      BY <1>2, <2>1, <3>1, EntriesStay, Zenon
  <2>2. CASE Reboot \/ UNCHANGED vars
    <3>1. db' = db
      BY <2>2, Zenon DEF Reboot, vars
    <3>2. QED
      BY <3>1, Zenon
  <2>3. QED
    BY <2>1, <2>2, Zenon DEF Next, Quiet
<1>3. QED
  BY <1>1, <1>2, Zenon

(* With one worker unregistering removes entries of the provider it names and no
   others, although it looks up the definition, the system and the entry in
   statements of their own (Register.h:270-302). *)
THEOREM UnregisterTakesItsOwn == OneWorker => (Spec => UnregisterIsOwn)
<1> SUFFICES ASSUME OneWorker PROVE Spec => UnregisterIsOwn
  OBVIOUS
<1>1. RegistryInv /\ [Next]_vars =>
          [\A w \in Workers : job[w].kind = "unregister" =>
              \A i \in DOMAIN db[Entry] : Belongs(i, job[w]) \/ i \in DOMAIN db'[Entry]]_vars
  BY UnregisterStep, Zenon
<1>2. QED
  BY <1>1, RegistryInvAlways, PTL DEF Spec, UnregisterIsOwn

-----------------------------------------------------------------------------
(* The table service_registry as a map from URIs to providers              *)

EntryFor(u)  == {i \in DOMAIN db[Entry] : db[Entry][i].uri = u}
EntryUri(i)  == db[Entry][i].uri
EntryProv(i) == [service |-> db[Entry][i].service, system |-> db[Entry][i].system]
Providing    == [u \in Uris |-> ProviderOf(u)]
Nobody       == [service |-> 0, system |-> 0]

\* the provider of a URI is the one of its row, if it has one
ByRow == /\ \A u : EntryFor(u) = {} => ProviderOf(u) = Nobody
         /\ \A i \in DOMAIN db[Entry] : ProviderOf(EntryUri(i)) = EntryProv(i)

LEMMA ProviderRow == UriUnique => ByRow
<1> SUFFICES ASSUME UriUnique PROVE ByRow
  OBVIOUS
<1>1. \A u : ProviderOf(u) = IF EntryFor(u) = {} THEN Nobody
                             ELSE EntryProv(CHOOSE i \in EntryFor(u) : TRUE)
  BY Zenon DEF ProviderOf, EntryFor, EntryProv, Nobody
<1>2. ASSUME NEW i \in DOMAIN db[Entry] PROVE ProviderOf(EntryUri(i)) = EntryProv(i)
  <2>1. EntryFor(EntryUri(i)) = {i}
    BY Zenon DEF UriUnique, EntryFor, EntryUri
  <2>2. (CHOOSE j \in EntryFor(EntryUri(i)) : TRUE) = i
    BY <2>1, Zenon
  <2>3. QED
    BY <1>1, <2>1, <2>2, Zenon
<1>3. QED
  BY <1>1, <1>2, Zenon DEF ByRow

LEMMA ProviderRowAfter == UriUnique' => ByRow'
BY ProviderRow, PTL

\* the rows of the table have URIs of Uris and providers that Providers holds
EntriesOK == \A i \in DOMAIN db[Entry] : /\ EntryUri(i) \in Uris
                                         /\ EntryProv(i) \in [service : Ids, system : Ids]

LEMMA EntryTypes == TablesOK => EntriesOK
<1> SUFFICES ASSUME TablesOK, NEW i \in DOMAIN db[Entry]
             PROVE  EntryUri(i) \in Uris /\ EntryProv(i) \in [service : Ids, system : Ids]
  BY Zenon DEF EntriesOK
<1>1. db[Entry] \in [DOMAIN db[Entry] -> [service : Ids, system : Ids, uri : Uris]]
  <2>1. Entry \in Tables
    BY DEF Tables
  <2>2. QED
    BY <2>1, RowTypes, Zenon DEF TablesOK
<1>2. db[Entry][i] \in [service : Ids, system : Ids, uri : Uris]
  BY <1>1, Zenon
<1>3. QED
  BY <1>2 DEF EntryUri, EntryProv

LEMMA EntryTypesAfter == TablesOK' => EntriesOK'
BY EntryTypes, PTL

LEMMA ProvidersKept ==
    ASSUME db'[Entry] = db[Entry]
    PROVE  Providing' = Providing
<1>1. \A u : ProviderOf(u)' = ProviderOf(u)
  BY Zenon DEF ProviderOf
<1>2. QED
  BY <1>1, Zenon DEF Providing

\* Deleting rows unbinds their URIs and no others.
LEMMA RowsRemoved ==
    ASSUME UriUnique, UriUnique', NEW D, NEW us,
           DOMAIN db'[Entry] = DOMAIN db[Entry] \ D,
           \A i \in DOMAIN db'[Entry] : db'[Entry][i] = db[Entry][i],
           \A i \in DOMAIN db[Entry] : i \in D <=> EntryUri(i) \in us
    PROVE  Map!Remove(us)
<1>1. ByRow /\ ByRow'
  BY ProviderRow, ProviderRowAfter, Zenon
<1>2. ASSUME NEW u PROVE ProviderOf(u)' = IF u \in us THEN Nobody ELSE ProviderOf(u)
  <2>1. CASE EntryFor(u) = {}
    <3>1. EntryFor(u)' = {}
      BY <2>1, Zenon DEF EntryFor
    <3>2. ProviderOf(u)' = Nobody
      BY <1>1, <3>1, Zenon DEF ByRow
    <3>3. ProviderOf(u) = Nobody
      BY <1>1, <2>1, Zenon DEF ByRow
    <3>4. QED
      BY <3>2, <3>3, Zenon
  <2>2. CASE EntryFor(u) # {}
    <3>1. PICK i \in DOMAIN db[Entry] : u = EntryUri(i)
      BY <2>2, Zenon DEF EntryFor, EntryUri
    <3>2. CASE u \in us
      <4>1. EntryFor(u)' = {}
        BY <3>2, Zenon DEF EntryFor, EntryUri
      <4>2. ProviderOf(u)' = Nobody
        BY <1>1, <4>1, Zenon DEF ByRow
      <4>3. QED
        BY <3>2, <4>2, Zenon
    <3>3. CASE u \notin us
      <4>1. i \in DOMAIN db'[Entry]
        BY <3>1, <3>3, Zenon
      <4>2. db'[Entry][i] = db[Entry][i]
        BY <4>1, Zenon
      <4>3. EntryUri(i)' = u /\ EntryProv(i)' = EntryProv(i)
        BY <3>1, <4>2, Zenon DEF EntryUri, EntryProv
      <4>4. ProviderOf(u)' = EntryProv(i)
        BY <1>1, <4>1, <4>3, Zenon DEF ByRow
      <4>5. ProviderOf(u) = EntryProv(i)
        BY <1>1, <3>1, Zenon DEF ByRow
      <4>6. QED
        BY <3>3, <4>4, <4>5, Zenon
    <3>4. QED
      BY <3>2, <3>3, Zenon
  <2>3. QED
    BY <2>1, <2>2, Zenon
<1>3. QED
  BY <1>2, Zenon DEF Map!Remove, Map!Unbound, Nobody

\* What the map needs to know of the table, before and after a step.
LEMMA MapFacts ==
    ASSUME RegistryInv, RegistryInv'
    PROVE  /\ UriUnique /\ UriUnique' /\ ByRow /\ ByRow' /\ EntriesOK /\ EntriesOK'
           /\ TablesOK
<1>1. UriUnique /\ UriUnique' /\ TablesOK /\ TablesOK'
  BY Zenon DEF RegistryInv, TablesSound, RegistryTypes
<1>2. QED
  BY <1>1, ProviderRow, ProviderRowAfter, EntryTypes, EntryTypesAfter, Zenon

\* The INSERT of an entry binds its URI.
LEMMA InsertBinds ==
    ASSUME RegistryInv, RegistryInv', NEW w \in Workers, Insert(w), at[w].table = Entry
    PROVE  Map!Next
<1> DEFINE n == nextId[Entry]
<1>1. PICK uri : uri = job[w].uri
  OBVIOUS
<1>2. /\ UriUnique /\ ByRow /\ ByRow' /\ EntriesOK' /\ TablesOK
  BY MapFacts, Zenon
<1>3. PICK row : row = NewRow(w, Entry) /\ InsertRow(Entry, row)
  BY Inserting, Zenon
<1>4. row.uri = uri
  <2>1. row = [service |-> v[w].service, system |-> v[w].system, uri |-> uri]
    BY <1>1, <1>3, TableNames, Zenon DEF NewRow
  <2>2. QED
    BY <2>1
<1>5. /\ DOMAIN db'[Entry] = DOMAIN db[Entry] \cup {n}
      /\ db'[Entry][n] = row
      /\ \A i \in DOMAIN db[Entry] : db'[Entry][i] = db[Entry][i]
  <2>1. Entry \in Tables /\ InsertRow(Entry, row)
    BY <1>3 DEF Tables
  <2>2. QED
    BY <1>2, <2>1, InsertedRow, Zenon
<1>6. EntryFor(uri) = {}
  <2>1. job[w].kind = "register"
    BY TableNames, Inserting
  <2>2. Matching(w, Entry) = {}
    BY <2>1, Inserting, Zenon DEF RegistryInv, Flow, Registering
  <2>3. QED
    BY <1>1, <2>2, MatchingRows, Zenon DEF EntryFor
<1>7. ProviderOf(uri) = Nobody
  BY <1>2, <1>6, Zenon DEF ByRow
<1>8. uri \in Uris /\ ProviderOf(uri)' \in [service : Ids, system : Ids]
  <2>1. n \in DOMAIN db'[Entry] /\ db'[Entry][n].uri = uri
    BY <1>4, <1>5, Zenon
  <2>2. \A i \in DOMAIN db'[Entry] : /\ db'[Entry][i].uri \in Uris
                                     /\ ProviderOf(db[Entry][i].uri)' \in [service : Ids, system : Ids]
    BY <1>2, Zenon DEF EntriesOK, ByRow, EntryUri
  <2>3. QED
    BY <2>1, <2>2, Zenon
<1>9. ASSUME NEW u, u # uri PROVE ProviderOf(u)' = ProviderOf(u)
  <2>1. CASE EntryFor(u) = {}
    <3>1. EntryFor(u)' = {}
      BY <1>4, <1>5, <1>9, <2>1, Zenon DEF EntryFor
    <3>2. QED
      BY <1>2, <2>1, <3>1, Zenon DEF ByRow, Nobody
  <2>2. CASE EntryFor(u) # {}
    <3>1. PICK i \in DOMAIN db[Entry] : u = EntryUri(i)
      BY <2>2, Zenon DEF EntryFor, EntryUri
    <3>2. i \in DOMAIN db'[Entry] /\ db'[Entry][i] = db[Entry][i]
      BY <1>5, Zenon
    <3>3. EntryUri(i)' = u /\ EntryProv(i)' = EntryProv(i)
      BY <3>1, <3>2, Zenon DEF EntryUri, EntryProv
    <3>4. ProviderOf(u)' = EntryProv(i)
      BY <1>2, <3>2, <3>3, Zenon DEF ByRow
    <3>5. ProviderOf(u) = EntryProv(i)
      BY <1>2, <3>1, Zenon DEF ByRow
    <3>6. QED
      BY <3>4, <3>5, Zenon
  <2>3. QED
    BY <2>1, <2>2, Zenon
<1>10. Map!Bind(uri)
  <2>1. Providing[uri] = Nobody /\ Providing'[uri] \in [service : Ids, system : Ids]
    BY <1>7, <1>8, Zenon DEF Providing
  <2>2. Providing' = [Providing EXCEPT ![uri] = Providing'[uri]]
    <3>1. \A u \in Uris : ProviderOf(u)' = IF u = uri THEN Providing'[uri] ELSE Providing[u]
      BY <1>9, Zenon DEF Providing
    <3>2. Providing' = [u \in Uris |-> IF u = uri THEN Providing'[uri] ELSE Providing[u]]
      BY <3>1, Zenon DEF Providing
    <3>3. DOMAIN Providing = Uris
      BY Zenon DEF Providing
    <3>4. QED
      BY <3>2, <3>3, Zenon
  <2>3. QED
    BY <2>1, <2>2, Zenon DEF Map!Bind, Map!Unbound, Map!Providers, Providing, Nobody
<1>11. QED
  BY <1>8, <1>10, Zenon DEF Map!Next

\* Deleting one entry, or all that share provider, service or system with it.
LEMMA RowsUnbound ==
    ASSUME RegistryInv, RegistryInv', NEW D, NEW i0 \in D \cap DOMAIN db[Entry],
           DOMAIN db'[Entry] = DOMAIN db[Entry] \ D,
           \A i \in DOMAIN db'[Entry] : db'[Entry][i] = db[Entry][i],
           \/ \A i \in DOMAIN db[Entry] : i \in D <=> i = i0
           \/ \A i \in DOMAIN db[Entry] : i \in D <=> EntryProv(i) = EntryProv(i0)
           \/ \A i \in DOMAIN db[Entry] : i \in D <=> EntryProv(i).service = EntryProv(i0).service
           \/ \A i \in DOMAIN db[Entry] : i \in D <=> EntryProv(i).system = EntryProv(i0).system
    PROVE  Map!Next
<1> DEFINE u0 == EntryUri(i0)
<1>1. UriUnique /\ UriUnique' /\ ByRow /\ EntriesOK
  BY MapFacts, Zenon
<1>2. \A i \in DOMAIN db[Entry] : EntryUri(i) \in Uris /\ Providing[EntryUri(i)] = EntryProv(i)
  BY <1>1, Zenon DEF EntriesOK, ByRow, Providing
<1>3. u0 \in Uris /\ Providing[u0] = EntryProv(i0)
  BY <1>2, Zenon
<1>4. ASSUME NEW us, \A i \in DOMAIN db[Entry] : i \in D <=> EntryUri(i) \in us
      PROVE  Map!Remove(us)
  BY <1>1, <1>4, RowsRemoved, Zenon
<1>5. CASE \A i \in DOMAIN db[Entry] : i \in D <=> i = i0
  <2>1. \A i \in DOMAIN db[Entry] : i \in D <=> EntryUri(i) \in {u0}
    BY <1>1, <1>5, Zenon DEF UriUnique, EntryUri
  <2>2. Map!Remove({u0})
    BY <1>4, <2>1, Zenon
  <2>3. QED
    BY <1>3, <2>2, Zenon DEF Map!Next
<1>6. CASE \A i \in DOMAIN db[Entry] : i \in D <=> EntryProv(i) = EntryProv(i0)
  <2>1. \A i \in DOMAIN db[Entry] :
            i \in D <=> EntryUri(i) \in {x \in Uris : Providing[x] = Providing[u0]}
    BY <1>2, <1>3, <1>6, Zenon
  <2>2. Map!Remove({x \in Uris : Providing[x] = Providing[u0]})
    BY <1>4, <2>1, Zenon
  <2>3. QED
    BY <1>3, <2>2, Zenon DEF Map!Next, Providing
<1>7. CASE \A i \in DOMAIN db[Entry] : i \in D <=> EntryProv(i).service = EntryProv(i0).service
  <2>1. \A i \in DOMAIN db[Entry] :
            i \in D <=> EntryUri(i) \in {x \in Uris : Providing[x].service = Providing[u0].service}
    BY <1>2, <1>3, <1>7, Zenon
  <2>2. Map!Remove({x \in Uris : Providing[x].service = Providing[u0].service})
    BY <1>4, <2>1, Zenon
  <2>3. QED
    BY <1>3, <2>2, Zenon DEF Map!Next, Providing
<1>8. CASE \A i \in DOMAIN db[Entry] : i \in D <=> EntryProv(i).system = EntryProv(i0).system
  <2>1. \A i \in DOMAIN db[Entry] :
            i \in D <=> EntryUri(i) \in {x \in Uris : Providing[x].system = Providing[u0].system}
    BY <1>2, <1>3, <1>8, Zenon
  <2>2. Map!Remove({x \in Uris : Providing[x].system = Providing[u0].system})
    BY <1>4, <2>1, Zenon
  <2>3. QED
    BY <1>3, <2>2, Zenon DEF Map!Next, Providing
<1>9. QED
  BY <1>5, <1>6, <1>7, <1>8, Zenon

\* The entries that go with the row of a management request.
LEMMA ManagedRows ==
    ASSUME NEW w, job[w].kind = "delete", NEW t \in {Definition, System, Entry}
    PROVE  \/ Deleted(t, Doomed(w, t), Entry) = {}
           \/ t = Entry /\ Deleted(t, Doomed(w, t), Entry) \subseteq {job[w].id}
           \/ /\ t = Definition
              /\ \/ Deleted(t, Doomed(w, t), Entry) = EntriesOf({job[w].id}, {})
                 \/ Deleted(t, Doomed(w, t), Entry) = EntriesOf({}, {})
           \/ /\ t = System
              /\ \/ Deleted(t, Doomed(w, t), Entry) = EntriesOf({}, {job[w].id})
                 \/ Deleted(t, Doomed(w, t), Entry) = EntriesOf({}, {})
<1>1. Doomed(w, t) = {job[w].id} \cap DOMAIN db[t]
  BY Zenon DEF Doomed
<1>2. Doomed(w, t) = {} \/ Doomed(w, t) = {job[w].id}
  BY <1>1, Zenon
<1>3. \A ids : /\ Deleted(Entry, ids, Entry) = ids
               /\ Deleted(Definition, ids, Entry) = IF cascade THEN EntriesOf(ids, {}) ELSE {}
               /\ Deleted(System, ids, Entry) = IF cascade THEN EntriesOf({}, ids) ELSE {}
  <2>1. \A ids : Deleted(Entry, ids, Entry) = ids
    BY TableNames, Zenon DEF Deleted
  <2>2. \A ids : Deleted(Definition, ids, Entry) = IF cascade THEN EntriesOf(ids, {}) ELSE {}
    BY TableNames, Zenon DEF Deleted
  <2>3. \A ids : Deleted(System, ids, Entry) = IF cascade THEN EntriesOf({}, ids) ELSE {}
    BY TableNames, Zenon DEF Deleted
  <2>4. QED
    BY <2>1, <2>2, <2>3, Zenon
<1>4. PICK ids : ids = Doomed(w, t)
  OBVIOUS
<1>5. ids = {} \/ ids = {job[w].id}
  BY <1>2, <1>4, Zenon
<1>6. CASE t = Entry
  <2>1. Deleted(t, ids, Entry) \subseteq {job[w].id}
    BY <1>3, <1>5, <1>6, Zenon
  <2>2. QED
    BY <1>4, <1>6, <2>1, Zenon
<1>7. CASE t = Definition
  <2>1. Deleted(t, ids, Entry) \in {{}, EntriesOf({job[w].id}, {}), EntriesOf({}, {})}
    BY <1>3, <1>5, <1>7, Zenon
  <2>2. QED
    BY <1>4, <1>7, <2>1, Zenon
<1>8. CASE t = System
  <2>1. Deleted(t, ids, Entry) \in {{}, EntriesOf({}, {job[w].id}), EntriesOf({}, {})}
    BY <1>3, <1>5, <1>8, Zenon
  <2>2. QED
    BY <1>4, <1>8, <2>1, Zenon
<1>9. QED
  BY <1>6, <1>7, <1>8, Zenon

\* Two rows have the same provider if they have the same service and system.
LEMMA SameProvider ==
    /\ \A i : EntryProv(i).service = db[Entry][i].service
    /\ \A i : EntryProv(i).system = db[Entry][i].system
    /\ \A i, j : EntryProv(i) = EntryProv(j) <=> /\ db[Entry][i].service = db[Entry][j].service
                                                 /\ db[Entry][i].system = db[Entry][j].system
BY DEF EntryProv

\* The entries a request deletes are one entry, or all those of the provider,
\* the service or the system of one of them.
LEMMA DoomedEntries ==
    ASSUME RegistryInv, NEW w \in Workers, Delete(w),
           NEW i0 \in Deleted(at[w].table, Doomed(w, at[w].table), Entry) \cap DOMAIN db[Entry]
    PROVE  LET D == Deleted(at[w].table, Doomed(w, at[w].table), Entry)
           IN  \/ \A i \in DOMAIN db[Entry] : i \in D <=> i = i0
               \/ \A i \in DOMAIN db[Entry] : i \in D <=> EntryProv(i) = EntryProv(i0)
               \/ \A i \in DOMAIN db[Entry] : i \in D <=> EntryProv(i).service = EntryProv(i0).service
               \/ \A i \in DOMAIN db[Entry] : i \in D <=> EntryProv(i).system = EntryProv(i0).system
<1> DEFINE t == at[w].table
<1>1. PICK D : D = Deleted(t, Doomed(w, t), Entry)
  OBVIOUS
<1>2. i0 \in D /\ i0 \in DOMAIN db[Entry]
  BY <1>1, Zenon
<1>3. at[w].step = "delete" /\ at[w].step # "idle"
  BY DEF Delete
<1>4. StepOf(job[w], at[w]) /\ job[w] \in Requests
  BY <1>3, ServingFacts, Zenon DEF RegistryInv, RegistryTypes
<1>5. \/ job[w].kind = "delete" /\ t \in {Definition, System, Entry}
      \/ job[w].kind = "unregister" /\ t \in {Connection, Entry}
  <2>1. \/ job[w].kind = "delete" /\ t = job[w].table
        \/ job[w].kind = "unregister" /\ t \in {Connection, Entry}
    BY <1>3, <1>4 DEF StepOf, Storing
  <2>2. QED
    BY <1>4, <2>1, RequestFields
<1>6. CASE job[w].kind = "unregister" /\ t \in {Connection, Entry}
  <2>1. job[w].kind # "delete"
    BY <1>6
  <2>2. D = IF t = Entry THEN Sought(w, Entry) ELSE {}
    BY <1>1, <1>6, <2>1, UnregisteredRows, Zenon
  <2>3. D = Sought(w, Entry)
    BY <1>2, <2>2, Zenon
  <2>4. Sought(w, Entry) = {i \in DOMAIN db[Entry] : /\ db[Entry][i].service = v[w].service
                                                     /\ db[Entry][i].system = v[w].system}
    BY TableNames, Zenon DEF Sought
  <2>5. db[Entry][i0].service = v[w].service /\ db[Entry][i0].system = v[w].system
    BY <1>2, <2>3, <2>4, Zenon
  <2>6. ASSUME NEW i \in DOMAIN db[Entry]
        PROVE  i \in D <=> EntryProv(i) = EntryProv(i0)
    <3>1. i \in D <=> db[Entry][i].service = v[w].service /\ db[Entry][i].system = v[w].system
      BY <2>3, <2>4, Zenon
    <3>2. EntryProv(i) = EntryProv(i0) <=> /\ db[Entry][i].service = db[Entry][i0].service
                                           /\ db[Entry][i].system = db[Entry][i0].system
      BY SameProvider, Zenon
    <3>3. QED
      BY <2>5, <3>1, <3>2, Zenon
  <2>7. QED
    BY <1>1, <2>6, Zenon
<1>7. CASE job[w].kind = "delete" /\ t \in {Definition, System, Entry}
  <2>1. \/ t = Entry /\ D \subseteq {job[w].id}
        \/ D = EntriesOf({job[w].id}, {}) \/ D = EntriesOf({}, {job[w].id})
    <3>1. EntriesOf({}, {}) = {}
      BY Zenon DEF EntriesOf
    <3>2. QED
      BY <1>1, <1>2, <1>7, <3>1, ManagedRows, Zenon
  <2>2. CASE D \subseteq {job[w].id}
    <3>1. \A i \in DOMAIN db[Entry] : i \in D <=> i = i0
      BY <1>2, <2>2, Zenon
    <3>2. QED
      BY <1>1, <3>1, Zenon
  <2>3. CASE D = EntriesOf({job[w].id}, {})
    <3>1. \A i \in DOMAIN db[Entry] : i \in D <=> db[Entry][i].service = job[w].id
      BY <2>3, Zenon DEF EntriesOf
    <3>2. \A i \in DOMAIN db[Entry] : i \in D <=> EntryProv(i).service = EntryProv(i0).service
      BY <1>2, <3>1, SameProvider, Zenon
    <3>3. QED
      BY <1>1, <3>2, Zenon
  <2>4. CASE D = EntriesOf({}, {job[w].id})
    <3>1. \A i \in DOMAIN db[Entry] : i \in D <=> db[Entry][i].system = job[w].id
      BY <2>4, Zenon DEF EntriesOf
    <3>2. \A i \in DOMAIN db[Entry] : i \in D <=> EntryProv(i).system = EntryProv(i0).system
      BY <1>2, <3>1, SameProvider, Zenon
    <3>3. QED
      BY <1>1, <3>2, Zenon
  <2>5. QED
    BY <2>1, <2>2, <2>3, <2>4, Zenon
<1>8. QED
  BY <1>5, <1>6, <1>7, Zenon

LEMMA DeleteUnbinds ==
    ASSUME RegistryInv, RegistryInv', NEW w \in Workers, Delete(w)
    PROVE  Map!Next \/ Providing' = Providing
<1> DEFINE t == at[w].table
<1>1. PICK D : D = Deleted(t, Doomed(w, t), Entry)
  OBVIOUS
<1>2. /\ DOMAIN db'[Entry] = DOMAIN db[Entry] \ D
      /\ \A i \in DOMAIN db'[Entry] : db'[Entry][i] = db[Entry][i]
  <2>1. PICK ids : ids = Doomed(w, t) /\ DeleteRows(t, ids)
    BY Zenon DEF Delete
  <2>2. DeleteRows(t, ids) /\ Entry \in Tables
    BY <2>1 DEF Tables
  <2>3. /\ DOMAIN db'[Entry] = DOMAIN db[Entry] \ Deleted(t, ids, Entry)
        /\ \A i \in DOMAIN db'[Entry] : db'[Entry][i] = db[Entry][i]
    BY <2>2, DeletedRows, Zenon
  <2>4. QED
    BY <1>1, <2>1, <2>3, Zenon
<1>3. CASE D \cap DOMAIN db[Entry] = {}
  <2>1. \A i \in DOMAIN db[Entry] : i \in D <=> EntryUri(i) \in {}
    BY <1>3, Zenon
  <2>2. Map!Remove({})
    BY <1>2, <2>1, MapFacts, RowsRemoved, Zenon
  <2>3. \A u \in Uris : ProviderOf(u)' = ProviderOf(u)
    <3>1. Providing' = [u \in Uris |-> IF u \in {} THEN Nobody ELSE Providing[u]]
      BY <2>2, Zenon DEF Map!Remove, Map!Unbound, Providing, Nobody
    <3>2. QED
      BY <3>1, Zenon DEF Providing
  <2>4. QED
    BY <2>3, Zenon DEF Providing
<1>4. CASE D \cap DOMAIN db[Entry] # {}
  <2>1. PICK i0 \in D \cap DOMAIN db[Entry] : TRUE
    BY <1>4, Zenon
  <2>2. \/ \A i \in DOMAIN db[Entry] : i \in D <=> i = i0
        \/ \A i \in DOMAIN db[Entry] : i \in D <=> EntryProv(i) = EntryProv(i0)
        \/ \A i \in DOMAIN db[Entry] : i \in D <=> EntryProv(i).service = EntryProv(i0).service
        \/ \A i \in DOMAIN db[Entry] : i \in D <=> EntryProv(i).system = EntryProv(i0).system
    BY <1>1, DoomedEntries, Zenon
  <2>3. QED
    BY <1>2, <2>2, RowsUnbound, Zenon
<1>5. QED
  BY <1>3, <1>4, Zenon

LEMMA MapInit == Init => Map!Init
<1> SUFFICES ASSUME Init PROVE Map!Init
  OBVIOUS
<1>1. db[Entry] = <<>>
  <2>1. Entry \in Tables
    BY DEF Tables
  <2>2. QED
    BY <2>1, Zenon DEF Init
<1>2. DOMAIN db[Entry] = {}
  BY <1>1
<1>3. \A u : ProviderOf(u) = Nobody
  BY <1>2, Zenon DEF ProviderOf, Nobody
<1>4. QED
  BY <1>3, Zenon DEF Map!Init, Map!Unbound, Nobody

LEMMA MapStep ==
    ASSUME RegistryInv, RegistryInv', [Next]_vars
    PROVE  Map!Next \/ Providing' = Providing
<1>1. ASSUME NEW w \in Workers, Insert(w)
      PROVE  Map!Next \/ Providing' = Providing
  <2>1. CASE at[w].table = Entry
    BY <1>1, <2>1, InsertBinds, Zenon
  <2>2. CASE at[w].table # Entry
    <3>1. Entry \in Tables
      BY DEF Tables
    <3>2. db'[Entry] = db[Entry]
      BY <1>1, <2>2, <3>1, InsertedElsewhere, Zenon
    <3>3. QED
      BY <3>2, ProvidersKept, Zenon
  <2>3. QED
    BY <2>1, <2>2, Zenon
<1>2. ASSUME NEW w \in Workers, Update(w)
      PROVE  Providing' = Providing
  BY <1>2, UpdateElsewhere, ProvidersKept, Zenon
<1>3. ASSUME NEW w \in Workers, Work(w) \/ Unexecuted(w) \/ Throw(w),
             ~Insert(w), ~Delete(w), ~Update(w)
      PROVE  Providing' = Providing
  <2>1. db' = db
    BY <1>3, Zenon DEF Work, Unexecuted, Throw, Start, Reject, Check, Recheck, Select, Find,
                       Entries, Connections, Provider, Done
  <2>2. QED
    BY <2>1, ProvidersKept, Zenon
<1>4. CASE Reboot \/ UNCHANGED vars
  <2>1. db' = db
    BY <1>4, Zenon DEF Reboot, vars
  <2>2. QED
    BY <2>1, ProvidersKept, Zenon
<1>5. ASSUME NEW w \in Workers, Delete(w)
      PROVE  Map!Next \/ Providing' = Providing
  BY <1>5, DeleteUnbinds, Zenon
<1>6. QED
  BY <1>1, <1>2, <1>3, <1>4, <1>5, Zenon DEF Next, Quiet

(* With one worker the table service_registry is a map from service URIs to
   providers: every step of the core system binds one unbound URI, removes one
   entry or all of a provider, a service or a system, or leaves the map alone
   (Register.h:138-146, 299). *)
THEOREM RegistryImplementsMap == OneWorker => (Spec => ImplementsMap)
<1> SUFFICES ASSUME OneWorker PROVE Spec => ImplementsMap
  OBVIOUS
<1>1. RegistryInv /\ RegistryInv' /\ [Next]_vars =>
          [Map!Next]_([u \in Uris |-> ProviderOf(u)])
  BY MapStep, Zenon DEF Providing
<1>2. QED
  BY <1>1, MapInit, RegistryInvAlways, PTL DEF Spec, ImplementsMap, Map!Spec

=============================================================================
