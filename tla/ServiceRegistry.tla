--------------------------- MODULE ServiceRegistry ---------------------------
(***************************************************************************)
(* The service registry core system (src/src/core/apps/ServiceRegistry):   *)
(* registering, unregistering, querying and the management requests, each  *)
(* one a sequence of SQL statements without a transaction.  A step is one  *)
(* statement, so the statements of requests that different workers serve   *)
(* interleave, and the process can end between any two of them.            *)
(*                                                                         *)
(* The database is external.  Its tables are functions from row ids to     *)
(* rows; names of service definitions and of interfaces are UNIQUE, as the *)
(* table descriptions in Authorization/queries/IntraCloud.h say.  Whether  *)
(* deleting a row deletes the rows that refer to it is left to the schema. *)
(* An address and a port are one value, addr.                              *)
(***************************************************************************)
EXTENDS Integers, Sequences

CONSTANTS
    Workers,        \* threads of the HTTPS server
    Requests,       \* the requests clients may send
    Uris,           \* the service URIs they mention
    MaxRequests,    \* requests served in a behaviour
    MaxFailures     \* times the database fails a statement for reasons of its own

ASSUME BoundsAssumption == MaxRequests \in Nat /\ MaxFailures \in Nat

VARIABLES
    db,          \* the tables
    nextId,      \* the AUTO_INCREMENT value of each table
    cascade,     \* foreign keys are ON DELETE CASCADE
    job,         \* the request each worker serves
    at,          \* its next statement
    v,           \* the handler's local variables
    reply,       \* the reply the worker has made
    up,          \* the process is running
    served,      \* requests taken so far
    failures     \* failures of the database so far

vars == <<db, nextId, cascade, job, at, v, reply, up, served, failures>>

Definition == "service_definition"
System     == "system_"
Interface  == "service_interface"
Entry      == "service_registry"
Connection == "service_registry_interface_connection"
Tables     == {Definition, System, Interface, Entry, Connection}

Ids  == Nat \ {0}
NoId == 0    \* the empty string an id variable keeps when a SELECT finds nothing

\* a row of the table system_
SystemRow == [name : STRING, addr : STRING]

\* requests as the parsers let them pass: a registration names at least one
\* interface, and ids are numbers
WellFormed ==
    [kind : {"register"}, service : STRING, system : SystemRow, uri : Uris,
     interfaces : Seq(STRING) \ {<<>>}]
      \cup [kind : {"unregister"}, service : STRING, system : SystemRow]
      \cup [kind : {"query"}, service : STRING, required : SUBSET STRING]
      \cup [kind : {"post_services"}, service : STRING, interfaces : {<<>>}]
      \cup [kind : {"post_systems"}, system : SystemRow, interfaces : {<<>>}]
      \cup [kind : {"put", "patch"}, table : {Definition}, id : Int, row : [name : STRING]]
      \cup [kind : {"put", "patch"}, table : {System}, id : Int, row : SystemRow]
      \cup [kind : {"delete"}, table : {Definition, System, Entry}, id : Int]

ASSUME RequestsAssumption == Requests \subseteq WellFormed \cup {[kind |-> "malformed"]}

NoJob  == [kind |-> "none"]
Idle   == [step |-> "idle", table |-> Entry]
Locals == [service |-> NoId, system |-> NoId, interfaces |-> <<>>, entry |-> NoId,
           k |-> 1, rows |-> {}, names |-> {}, found |-> {},
           unread |-> FALSE]    \* history: a SELECT failed and read as an empty result
NoReply == [status |-> "none", found |-> {}]

Init == /\ db = [t \in Tables |-> <<>>]
        /\ nextId = [t \in Tables |-> 1]
        /\ cascade \in BOOLEAN
        /\ job = [w \in Workers |-> NoJob]
        /\ at = [w \in Workers |-> Idle]
        /\ v = [w \in Workers |-> Locals]
        /\ reply = [w \in Workers |-> NoReply]
        /\ up = TRUE
        /\ served = 0
        /\ failures = 0

-----------------------------------------------------------------------------
(* The database                                                            *)

Names(t) == {db[t][i].name : i \in DOMAIN db[t]}

\* a UNIQUE name that another row of the table has
Duplicate(t, row) == t \in {Definition, Interface} /\ row.name \in Names(t)

InsertRow(t, row) ==
    /\ db' = [db EXCEPT ![t] = [i \in DOMAIN @ \cup {nextId[t]} |->
                                   IF i = nextId[t] THEN row ELSE @[i]]]
    /\ nextId' = [nextId EXCEPT ![t] = @ + 1]

Without(t, ids) == [i \in DOMAIN db[t] \ ids |-> db[t][i]]

EntriesOf(services, systems) ==
    {i \in DOMAIN db[Entry] : db[Entry][i].service \in services \/ db[Entry][i].system \in systems}

ConnectionsOf(entries) == {i \in DOMAIN db[Connection] : db[Connection][i].entry \in entries}

\* the rows of table u that go with the rows ids of table t
Deleted(t, ids, u) ==
    LET entries == CASE t = Definition -> EntriesOf(ids, {})
                     [] t = System     -> EntriesOf({}, ids)
                     [] t = Entry      -> ids
                     [] OTHER          -> {}
    IN  (IF u = t THEN ids ELSE {})
          \cup (IF cascade /\ u = Entry THEN entries ELSE {})
          \cup (IF cascade /\ u = Connection THEN ConnectionsOf(entries) ELSE {})

\* DELETE FROM t, for rows ids, and the rows that refer to them
DeleteRows(t, ids) == db' = [u \in Tables |-> Without(u, Deleted(t, ids, u))]

-----------------------------------------------------------------------------
(* Requests                                                                *)

Goto(w, step, table) == at' = [at EXCEPT ![w] = [step |-> step, table |-> table]]

Reply(w, status, found) ==
    /\ reply' = [reply EXCEPT ![w] = [status |-> status, found |-> found]]
    /\ Goto(w, "reply", Entry)

\* the statement a request begins with
First(r) ==
    CASE r.kind = "register"       -> [step |-> "check", table |-> Definition]
      [] r.kind = "post_services"  -> [step |-> "check", table |-> Definition]
      [] r.kind = "post_systems"   -> [step |-> "check", table |-> System]
      [] r.kind \in {"unregister", "query"} -> [step |-> "find", table |-> Definition]
      [] r.kind = "delete"         -> [step |-> "delete", table |-> r.table]
      [] r.kind \in {"put", "patch"} -> [step |-> "update", table |-> r.table]
      [] r.kind = "malformed"      -> [step |-> "reject", table |-> Entry]

\* handlePOST, handlePUT, handlePATCH, handleDELETE
Start(w) == /\ at[w] = Idle
            /\ served < MaxRequests
            /\ \E r \in Requests : /\ job' = [job EXCEPT ![w] = r]
                                   /\ at' = [at EXCEPT ![w] = First(r)]
            /\ served' = served + 1
            /\ UNCHANGED <<db, nextId, cascade, v, reply, up, failures>>

\* bad JSON, a missing or an invalid field: an error before the first statement
Reject(w) == /\ at[w].step = "reject"
             /\ Reply(w, "error", {})
             /\ UNCHANGED <<db, nextId, cascade, job, v, up, served, failures>>

\* bug: the endpoint object is kept for the next request
DoneKeepsLocals(w) ==
    /\ at[w].step = "reply"
    /\ at' = [at EXCEPT ![w] = Idle]
    /\ job' = [job EXCEPT ![w] = NoJob]
    /\ reply' = [reply EXCEPT ![w] = NoReply]
    /\ UNCHANGED <<db, nextId, cascade, v, up, served, failures>>

\* the reply is sent and the endpoint object destroyed
Done(w) == /\ at[w].step = "reply"
           /\ at' = [at EXCEPT ![w] = Idle]
           /\ job' = [job EXCEPT ![w] = NoJob]
           /\ v' = [v EXCEPT ![w] = Locals]
           /\ reply' = [reply EXCEPT ![w] = NoReply]
           /\ UNCHANGED <<db, nextId, cascade, up, served, failures>>

-----------------------------------------------------------------------------
(* DbWrapper::checkAndInsertValue(s): SELECT, and if nothing is found INSERT *)
(* and SELECT again.  A registration does it for every table in turn.       *)

\* bug: an entry is looked up by its provider as well as by its URI
MatchingProvider(w, t) ==
    {i \in DOMAIN db[t] :
        CASE t = Definition -> db[t][i].name = job[w].service
          [] t = System     -> db[t][i].name = job[w].system.name
          [] t = Interface  -> db[t][i].name = job[w].interfaces[v[w].k]
          [] t = Entry      -> db[t][i] = [service |-> v[w].service, system |-> v[w].system,
                                           uri |-> job[w].uri]
          [] t = Connection -> db[t][i].entry = v[w].entry}

\* the rows the SELECT finds: a system is looked up by its name alone, an entry
\* by its URI alone, and a connection by its entry alone
Matching(w, t) ==
    {i \in DOMAIN db[t] :
        CASE t = Definition -> db[t][i].name = job[w].service
          [] t = System     -> db[t][i].name = job[w].system.name
          [] t = Interface  -> db[t][i].name = job[w].interfaces[v[w].k]
          [] t = Entry      -> db[t][i].uri = job[w].uri
          [] t = Connection -> db[t][i].entry = v[w].entry}

NewRow(w, t) ==
    CASE t = Definition -> [name |-> job[w].service]
      [] t = System     -> job[w].system
      [] t = Interface  -> [name |-> job[w].interfaces[v[w].k]]
      [] t = Entry      -> [service |-> v[w].service, system |-> v[w].system, uri |-> job[w].uri]
      [] t = Connection -> [entry |-> v[w].entry, interface |-> v[w].interfaces[v[w].k]]

\* the variable the id of the row goes to
Bind(x, t, id) ==
    CASE t = Definition -> [x EXCEPT !.service = id]
      [] t = System     -> [x EXCEPT !.system = id]
      [] t = Interface  -> [x EXCEPT !.interfaces = Append(@, id), !.k = @ + 1]
      [] t = Entry      -> [x EXCEPT !.entry = id]
      [] t = Connection -> [x EXCEPT !.k = @ + 1]

\* the two MgmtPost handlers insert into one table and select the row
PostAfter(t) == [step |-> "select", table |-> t]

\* bug: a registration that finds its entry returns it at once
AfterReturnsEarly(w, t, x) ==
    LET more == x.k <= Len(job[w].interfaces)
    IN  CASE job[w].kind # "register" -> PostAfter(t)
          [] OTHER ->
             CASE t = Definition -> [step |-> "check", table |-> System]
               [] t = System     -> [step |-> "check", table |-> Interface]
               [] t = Interface  -> [step |-> "check", table |-> IF more THEN Interface ELSE Entry]
               [] t = Entry      -> IF at[w].step = "check" THEN [step |-> "select", table |-> Definition]
                                    ELSE [step |-> "check", table |-> Connection]
               [] t = Connection -> IF more THEN [step |-> "check", table |-> Connection]
                                    ELSE [step |-> "select", table |-> Definition]

\* what follows, in Register::processDB
After(w, t, x) ==
    LET more == x.k <= Len(job[w].interfaces)
    IN  CASE job[w].kind # "register" -> PostAfter(t)
          [] OTHER ->
             CASE t = Definition -> [step |-> "check", table |-> System]
               [] t = System     -> [step |-> "check", table |-> Interface]
               [] t = Interface  -> [step |-> "check", table |-> IF more THEN Interface ELSE Entry]
               [] t = Entry      -> [step |-> "check", table |-> Connection]
               [] t = Connection -> IF more THEN [step |-> "check", table |-> Connection]
                                    ELSE [step |-> "select", table |-> Definition]

\* each loop over the interfaces starts from the first
Restart(x, t) == IF t = Entry THEN [x EXCEPT !.k = 1] ELSE x

Found(w, id) == LET t == at[w].table
                    x == Restart(Bind(v[w], t, id), t)
                IN  /\ v' = [v EXCEPT ![w] = x]
                    /\ at' = [at EXCEPT ![w] = After(w, t, x)]

Check(w) == /\ at[w].step = "check"
            /\ LET ids == Matching(w, at[w].table)
               IN  \/ \E id \in ids : Found(w, id)
                   \/ /\ ids = {}
                      /\ Goto(w, "insert", at[w].table)
                      /\ UNCHANGED v
            /\ UNCHANGED <<db, nextId, cascade, job, reply, up, served, failures>>

Recheck(w) == /\ at[w].step = "recheck"
              /\ LET ids == Matching(w, at[w].table)
                 IN  \E id \in IF ids = {} THEN {NoId} ELSE ids : Found(w, id)
              /\ UNCHANGED <<db, nextId, cascade, job, reply, up, served, failures>>

\* the rows an INSERT or an unquoted SELECT refers to
References(t, row) ==
    CASE t = Entry      -> {<<Definition, row.service>>, <<System, row.system>>}
      [] t = Connection -> {<<Entry, row.entry>>, <<Interface, row.interface>>}
      [] OTHER          -> {}

\* the INSERT fails: a duplicate name, a missing id that leaves the statement
\* malformed, or a foreign key to a row that is gone
InsertFails(t, row) ==
    \/ Duplicate(t, row)
    \/ \E ref \in References(t, row) : ref[2] = NoId \/ (cascade /\ ref[2] \notin DOMAIN db[ref[1]])

Insert(w) == /\ at[w].step = "insert"
             /\ LET t == at[w].table
                IN  /\ ~InsertFails(t, NewRow(w, t))
                    /\ InsertRow(t, NewRow(w, t))
                    /\ Goto(w, "recheck", t)
             /\ UNCHANGED <<cascade, job, v, reply, up, served, failures>>

-----------------------------------------------------------------------------
(* The row or rows a register, POST, PUT or PATCH request replies with      *)

\* what a SELECT asks for, as the set of ids it needs
Wanted(w, t) ==
    CASE job[w].kind \in {"put", "patch"} -> {job[w].id}
      [] OTHER -> CASE t = Definition -> {v[w].service}
                    [] t = System     -> {v[w].system}
                    [] t = Interface  -> {v[w].interfaces[i] : i \in DOMAIN v[w].interfaces}
                    [] t = Entry      -> {v[w].entry}

\* POST /mgmt/systems selects by name, address and port, not by id
Selected(w, t) ==
    IF job[w].kind = "post_systems"
    THEN \E i \in DOMAIN db[System] : db[System][i] = job[w].system
    ELSE Wanted(w, t) \subseteq DOMAIN db[t]

\* a registration's SELECT has an unquoted id, and is malformed without one
SelectFails(w, t) == job[w].kind = "register" /\ NoId \in Wanted(w, t)

SelectAfter(t) == CASE t = Definition -> System
                    [] t = System     -> Interface
                    [] t = Interface  -> Entry

\* The interfaces take a SELECT each; no request changes or deletes an
\* interface, so they are one step.
Select(w) ==
    /\ at[w].step = "select"
    /\ LET t == at[w].table
       IN  /\ ~SelectFails(w, t)
           /\ \/ ~Selected(w, t) /\ Reply(w, "error", {})
              \/ /\ Selected(w, t)
                 /\ IF job[w].kind = "register" /\ t # Entry
                    THEN Goto(w, "select", SelectAfter(t)) /\ UNCHANGED reply
                    ELSE Reply(w, "ok", {})
    /\ UNCHANGED <<db, nextId, cascade, job, v, up, served, failures>>

-----------------------------------------------------------------------------
(* Unregister, and the lookup of the definition in a query                  *)

Sought(w, t) ==
    {i \in DOMAIN db[t] :
        CASE t = Definition -> db[t][i].name = job[w].service
          [] t = System     -> db[t][i] = job[w].system
          [] t = Entry      -> db[t][i].service = v[w].service /\ db[t][i].system = v[w].system}

FindAfter(w, t) ==
    CASE job[w].kind = "query" -> [step |-> "entries", table |-> Entry]
      [] OTHER -> CASE t = Definition -> [step |-> "find", table |-> System]
                    [] t = System     -> [step |-> "find", table |-> Entry]
                    [] t = Entry      -> [step |-> "delete", table |-> Connection]

Find(w) ==
    /\ at[w].step = "find"
    /\ LET t   == at[w].table
           ids == Sought(w, t)
       IN  \/ \E id \in ids : /\ v' = [v EXCEPT ![w] = Bind(@, t, id)]
                              /\ at' = [at EXCEPT ![w] = FindAfter(w, t)]
                              /\ UNCHANGED reply
           \/ ids = {} /\ Reply(w, "error", {}) /\ UNCHANGED v
    /\ UNCHANGED <<db, nextId, cascade, job, up, served, failures>>

\* bug: the condition on system_id is missing
DoomedService(w, t) ==
    CASE job[w].kind = "delete" -> {job[w].id} \cap DOMAIN db[t]
      [] OTHER -> CASE t = Connection -> ConnectionsOf({v[w].entry})
                    [] t = Entry      -> EntriesOf({v[w].service}, {})

\* unregister deletes the connections of the entry it found and all entries of
\* the provider; the management requests delete the row with the given id
Doomed(w, t) ==
    CASE job[w].kind = "delete" -> {job[w].id} \cap DOMAIN db[t]
      [] OTHER -> CASE t = Connection -> ConnectionsOf({v[w].entry})
                    [] t = Entry      -> Sought(w, Entry)

Delete(w) ==
    /\ at[w].step = "delete"
    /\ LET t == at[w].table
       IN  /\ DeleteRows(t, Doomed(w, t))
           /\ IF t = Connection THEN Goto(w, "delete", Entry) /\ UNCHANGED reply
                                ELSE Reply(w, "ok", {})
    /\ UNCHANGED <<nextId, cascade, job, v, up, served, failures>>

-----------------------------------------------------------------------------
(* PUT and PATCH.  PUT sets name and address of a system in one UPDATE,      *)
(* PATCH one column at a time, and only those the request gives.            *)

Absent == ""

Given(new, old) == IF new = Absent THEN old ELSE new

UpdatedRow(w, t) ==
    LET row == db[t][job[w].id]
    IN  CASE job[w].kind = "put" -> job[w].row
          [] OTHER -> IF t = Definition \/ v[w].k = 1
                      THEN [row EXCEPT !.name = Given(job[w].row.name, @)]
                      ELSE [row EXCEPT !.addr = Given(job[w].row.addr, @)]

\* the name is another row's
UpdateFails(w, t) ==
    /\ job[w].id \in DOMAIN db[t]
    /\ t = Definition
    /\ \E i \in DOMAIN db[t] \ {job[w].id} : db[t][i].name = job[w].row.name

Update(w) ==
    /\ at[w].step = "update"
    /\ LET t    == at[w].table
           last == t = Definition \/ job[w].kind = "put" \/ v[w].k = 2
       IN  /\ ~UpdateFails(w, t)
           /\ db' = IF job[w].id \in DOMAIN db[t]
                    THEN [db EXCEPT ![t][job[w].id] = UpdatedRow(w, t)] ELSE db
           /\ v' = [v EXCEPT ![w].k = @ + 1]
           /\ IF last THEN Goto(w, "select", t) ELSE UNCHANGED at
    /\ UNCHANGED <<nextId, cascade, job, reply, up, served, failures>>

-----------------------------------------------------------------------------
(* SRQuery::fillQueryList: the entries of the definition, then for each one *)
(* its connections with their interfaces, and its system                   *)

Entries(w) ==
    /\ at[w].step = "entries"
    /\ LET ids == {i \in DOMAIN db[Entry] : db[Entry][i].service = v[w].service}
       IN  \/ ids = {} /\ Reply(w, "ok", {}) /\ UNCHANGED v
           \/ /\ ids # {}
              /\ v' = [v EXCEPT ![w].rows = {[id |-> i, row |-> db[Entry][i]] : i \in ids}]
              /\ Goto(w, "connections", Connection)
              /\ UNCHANGED reply
    /\ UNCHANGED <<db, nextId, cascade, job, up, served, failures>>

\* the row of the result set the loop is at: SQL leaves their order open
Current(w) == CHOOSE e \in v[w].rows : TRUE

\* the interfaces of an entry, and their names
InterfacesOf(e) == {db[Connection][i].interface : i \in ConnectionsOf({e})}
NamesOf(ids)    == {db[Interface][i].name : i \in ids}

\* bug: the vectors of the previous entry are not cleared
ConnectionsUncleared(w) ==
    /\ at[w].step = "connections"
    /\ LET ids == InterfacesOf(Current(w).id)
       IN  \/ /\ ids = {} \/ ~(ids \subseteq DOMAIN db[Interface])
              /\ Reply(w, "ok", {}) /\ UNCHANGED v
           \/ /\ ids # {} /\ ids \subseteq DOMAIN db[Interface]
              /\ v' = [v EXCEPT ![w].names = @ \cup NamesOf(ids)]
              /\ Goto(w, "provider", System)
              /\ UNCHANGED reply
    /\ UNCHANGED <<db, nextId, cascade, job, up, served, failures>>

\* an entry without a connection empties the whole reply
Connections(w) ==
    /\ at[w].step = "connections"
    /\ LET ids == InterfacesOf(Current(w).id)
       IN  \/ /\ ids = {} \/ ~(ids \subseteq DOMAIN db[Interface])
              /\ Reply(w, "ok", {}) /\ UNCHANGED v
           \/ /\ ids # {} /\ ids \subseteq DOMAIN db[Interface]
              /\ v' = [v EXCEPT ![w].names = NamesOf(ids)]
              /\ Goto(w, "provider", System)
              /\ UNCHANGED reply
    /\ UNCHANGED <<db, nextId, cascade, job, up, served, failures>>

\* filterQueryList, by the interfaces the client requires
Filter(found, required) == {e \in found : required = {} \/ e.names \cap required # {}}

Provider(w) ==
    /\ at[w].step = "provider"
    /\ LET e     == Current(w)
           rest  == v[w].rows \ {e}
           found == v[w].found \cup {[uri |-> e.row.uri, names |-> v[w].names,
                                      system |-> db[System][e.row.system]]}
       IN  \/ e.row.system \notin DOMAIN db[System] /\ Reply(w, "ok", {}) /\ UNCHANGED v
           \/ /\ e.row.system \in DOMAIN db[System]
              /\ v' = [v EXCEPT ![w].rows = rest, ![w].found = found]
              /\ IF rest = {} THEN Reply(w, "ok", Filter(found, job[w].required))
                              ELSE Goto(w, "connections", Connection) /\ UNCHANGED reply
    /\ UNCHANGED <<db, nextId, cascade, job, up, served, failures>>

-----------------------------------------------------------------------------
(* Failures of the database                                                 *)

\* the statements that use fetch(statement), which returns rows
FetchesRows(w) == \/ at[w].step \in {"select", "entries", "connections", "provider"}
                  \/ at[w].step = "find" /\ job[w].kind = "query"

\* fetch(statement) prepares the SELECT, cannot execute it, and returns no rows:
\* the handler goes on as if there were none
Unexecuted(w) ==
    /\ FetchesRows(w)
    /\ ~(at[w].step = "select" /\ SelectFails(w, at[w].table))
    /\ failures < MaxFailures
    /\ failures' = failures + 1
    /\ v' = [v EXCEPT ![w].unread = TRUE]
    /\ Reply(w, IF at[w].step \in {"select", "find"} THEN "error" ELSE "ok", {})
    /\ UNCHANGED <<db, nextId, cascade, job, up, served>>

\* the statement cannot be executed, whatever the state of the server
MustThrow(w) ==
    LET t == at[w].table
    IN  \/ at[w].step = "insert" /\ InsertFails(t, NewRow(w, t))
        \/ at[w].step = "select" /\ SelectFails(w, t)
        \/ at[w].step = "update" /\ UpdateFails(w, t)

\* db::Exception: no handler of this core system catches it and dispatch() is
\* noexcept, so the process ends with every request that is being served
Throw(w) == /\ at[w].step \notin {"idle", "reject", "reply"}
            /\ \/ MustThrow(w) /\ UNCHANGED failures
               \/ ~MustThrow(w) /\ failures < MaxFailures /\ failures' = failures + 1
            /\ up' = FALSE
            /\ job' = [u \in Workers |-> NoJob]
            /\ at' = [u \in Workers |-> Idle]
            /\ v' = [u \in Workers |-> Locals]
            /\ reply' = [u \in Workers |-> NoReply]
            /\ UNCHANGED <<db, nextId, cascade, served>>

\* somebody starts the core system again
Reboot == /\ ~up
          /\ up' = TRUE
          /\ UNCHANGED <<db, nextId, cascade, job, at, v, reply, served, failures>>

Work(w) == \/ Start(w) \/ Reject(w) \/ Check(w) \/ Insert(w) \/ Recheck(w) \/ Select(w)
           \/ Find(w) \/ Delete(w) \/ Update(w)
           \/ Entries(w) \/ Connections(w) \/ Provider(w) \/ Done(w)

Resting == up /\ \A w \in Workers : at[w] = Idle

Quiet == Resting /\ served = MaxRequests /\ UNCHANGED vars

Next == \/ up /\ \E w \in Workers : Work(w) \/ Unexecuted(w) \/ Throw(w)
        \/ Reboot
        \/ Quiet

Spec == Init /\ [][Next]_vars

-----------------------------------------------------------------------------
\* the rows of a table
RowOf(t) == CASE t = Definition -> [name : STRING]
              [] t = System     -> SystemRow
              [] t = Interface  -> [name : STRING]
              [] t = Entry      -> [service : Ids, system : Ids, uri : Uris]
              [] t = Connection -> [entry : Ids, interface : Ids]

TypeOK == /\ \A t \in Tables : /\ DOMAIN db[t] \subseteq 1 .. (nextId[t] - 1)
                              /\ db[t] \in [DOMAIN db[t] -> RowOf(t)]
          /\ cascade \in BOOLEAN /\ up \in BOOLEAN
          /\ \A w \in Workers : /\ job[w] \in Requests \cup {NoJob}
                                /\ at[w].table \in Tables
                                /\ at[w] = Idle <=> job[w] = NoJob
                                /\ at[w] = Idle => v[w] = Locals /\ reply[w] = NoReply
          /\ served \in 0 .. MaxRequests
          /\ failures \in 0 .. MaxFailures

(* No two entries have the same service URI, although each registration only
   looks before it inserts (Register.h:138-146): with one worker, also when the
   process ends between any two statements of a registration. *)
UriUnique == \A i, j \in DOMAIN db[Entry] : db[Entry][i].uri = db[Entry][j].uri => i = j

(* A registration that replies with success leaves an entry that a query can
   use, with at least one interface connected to it, also when it finds the
   entry that an interrupted registration left behind (Register.h:150-170). *)
RegisteredIsUsable ==
    \A w \in Workers :
        reply[w].status = "ok" /\ job[w].kind = "register" =>
            /\ v[w].entry \in DOMAIN db[Entry]
            /\ db[Entry][v[w].entry].uri = job[w].uri
            /\ InterfacesOf(v[w].entry) # {}

\* what a query for the service ought to find
Registered(service, required) ==
    LET defs == {i \in DOMAIN db[Definition] : db[Definition][i].name = service}
    IN  Filter({[uri |-> db[Entry][i].uri, names |-> NamesOf(InterfacesOf(i)),
                 system |-> db[System][db[Entry][i].system]] : i \in EntriesOf(defs, {})}, required)

\* the entry has its system and its interfaces
Whole(i) == db[Entry][i].system \in DOMAIN db[System] /\ InterfacesOf(i) # {}

(* A query replies with exactly the providers of the service, each with its own
   interfaces and its own system, whenever every entry of the table is whole
   and the database executed every SELECT of the query (SRQuery.h:71-184):
   nothing of one row is left in the next. *)
QueryExact ==
    \A w \in Workers :
        /\ reply[w].status = "ok" /\ job[w].kind = "query" /\ ~v[w].unread
        /\ \A i \in DOMAIN db[Entry] : Whole(i)
        => reply[w].found = Registered(job[w].service, job[w].required)

\* the provider of each URI in the table
ProviderOf(u) ==
    LET ids == {i \in DOMAIN db[Entry] : db[Entry][i].uri = u}
        row == db[Entry][CHOOSE i \in ids : TRUE]
    IN  IF ids = {} THEN [service |-> 0, system |-> 0]
        ELSE [service |-> row.service, system |-> row.system]

Map == INSTANCE ProviderMap WITH Services <- Ids, Systems <- Ids,
                                 provider <- [u \in Uris |-> ProviderOf(u)]

(* With one worker the table service_registry is a map from URIs to providers:
   the first registration of a URI binds it, and later ones leave it alone until
   it is removed (Register.h:138-146, 299). *)
ImplementsMap == Map!Spec

\* the entry is one of the provider that the request names
Belongs(i, r) ==
    \E d \in DOMAIN db[Definition], s \in DOMAIN db[System] :
        /\ db[Entry][i].service = d /\ db[Definition][d].name = r.service
        /\ db[Entry][i].system = s /\ db[System][s] = r.system

(* Unregistering removes entries of the provider it names and no others, neither
   other providers of the service nor other services of the system, although
   definition, system and entry are looked up by statements of their own
   (Register.h:270-302). *)
UnregisterIsOwn ==
    [][\A w \in Workers : job[w].kind = "unregister" =>
          \A i \in DOMAIN db[Entry] : Belongs(i, job[w]) \/ i \in DOMAIN db'[Entry]]_vars

(* A registration that replies with success has stored what it replies: an entry
   for this service and this system, connected to every interface of the request
   ("Save service registry entry into DBase", Register.h:125, "Save interface
   connection", Register.h:151). *)
RegistrationStored ==
    \A w \in Workers :
        reply[w].status = "ok" /\ job[w].kind = "register" =>
            \E i \in DOMAIN db[Entry] :
                /\ db[Entry][i] = [service |-> v[w].service, system |-> v[w].system,
                                   uri |-> job[w].uri]
                /\ {v[w].interfaces[k] : k \in DOMAIN v[w].interfaces} \subseteq InterfacesOf(i)

(* No request ends the process: dispatch() is declared noexcept (Core.h:50). *)
DispatchNoexcept == up
=============================================================================
